---- MODULE Spec2Model ----
(***************************************************************************)
(* Verification model of gvcf_parser_rs: the gVCF record iterator with its *)
(* lookahead buffer (src/src/region_splitter.rs) and the VCF record        *)
(* iterator (src/src/vcf_iterator.rs).                                     *)
(*                                                                         *)
(* A text line is modelled by what the decoders look at: the prefix it     *)
(* starts with, the number of tab-separated fields, the fields the decoder *)
(* reads, and whether the line still carries its line terminator           *)
(* (read_line keeps it and GVcfRecord::from_line does not trim it).        *)
(* A POS text is modelled by the integer it denotes; a text that is not a  *)
(* decimal numeral is modelled by -1, which parse::<u32> rejects as it     *)
(* rejects every negative numeral.                                         *)
(***************************************************************************)
EXTENDS Integers, Sequences, FiniteSets, TLC

(***************************************************************************)
(* Bounds of the model.                                                    *)
(***************************************************************************)
\* longest enumerated input stream, in lines
MaxLines == 4
\* largest n passed to fill_buffer(n)
MaxFill == 3

(***************************************************************************)
(* Lines and streams of the gVCF iterator.                                 *)
(***************************************************************************)
NON_REF == "<NON_REF>"

GLine(lead, nf, chrom, pos, ref, alt, nl) ==
    [lead |-> lead, nf |-> nf, chrom |-> chrom, pos |-> pos,
     ref |-> ref, alt |-> alt, nl |-> nl]

\* String::new(), and the line after line.clear()
EmptyLine == GLine("", 0, "", -1, "", <<>>, FALSE)

\* a position of the stream at which read_line fails with an I/O error
IoFailure == GLine("<io error>", 0, "", -1, "", <<>>, FALSE)

MetaLine  == GLine("##", 1, "##FORMAT=<ID=HQ>", -1, "", <<>>, TRUE)
ChromLine == GLine("#CHROM", 12, "#CHROM", -1, "REF", <<"ALT">>, TRUE)
Data14370 == GLine("", 12, "20", 14370, "G", <<NON_REF>>, TRUE)
Data17330 == GLine("", 12, "20", 17330, "T", <<"A", NON_REF>>, TRUE)
Data17331 == GLine("", 12, "20", 17331, "A", <<"G", "T", NON_REF>>, TRUE)
Data17332 == GLine("", 12, "20", 17332, "T", <<NON_REF>>, TRUE)
Data17333 == GLine("", 12, "20", 17333, "GTC", <<"G", "GTCT", NON_REF>>, TRUE)
Data17334 == GLine("", 12, "20", 17334, "GTC", <<"G", "GTCT", NON_REF>>, FALSE)
\* a data line cut after its third column
ShortLine == GLine("", 3, "20", 17335, "", <<>>, TRUE)
\* a line of exactly five columns whose ALT column is <NON_REF>
FiveColumnInvariant == GLine("", 5, "20", 17336, "C", <<NON_REF>>, TRUE)

SAMPLE_GVCF ==
    << GLine("##", 1, "##", -1, "", <<>>, TRUE), MetaLine, ChromLine,
       Data14370, Data17330, Data17331, Data17332, Data17333, Data17334 >>

GLinePool ==
    { MetaLine, ChromLine, Data14370, Data17330, Data17333,
      ShortLine, FiveColumnInvariant }

\* the streams of up to three reads on which some read fails
IoFailureStreams ==
    { s \in UNION { [1..k -> {MetaLine, ChromLine, Data17330, IoFailure}] : k \in 1..3 } :
        \E i \in 1..Len(s) : s[i] = IoFailure }

GStreams ==
    UNION { [1..k -> GLinePool] : k \in 0..MaxLines }
        \cup IoFailureStreams \cup { SAMPLE_GVCF }

VARIABLES
    stream,     \* the lines behind the reader, fixed at construction
    reader,     \* number of lines the reader has delivered so far
    line,       \* GVcfRecordIterator.line
    section,    \* GVcfRecordIterator.section
    buffer,     \* GVcfRecordIterator.buffer
    hung,       \* the running call never returns
    last,       \* the last call made and what it returned
    pre,        \* the iterator as it was when the last call began
    out,        \* the items next() has returned so far, in order
    filled      \* fill_buffer has been called on this iterator

gvars == << stream, reader, line, section, buffer, hung, last, pre, out, filled >>

(***************************************************************************)
(* Results of the calls.                                                   *)
(***************************************************************************)
NoRecord == [chrom |-> "", pos |-> 0, alleles |-> <<>>]

Result(tag, rec, err, n) == [tag |-> tag, rec |-> rec, err |-> err, n |-> n]
\* Option::None
NoneRes == Result("None", NoRecord, "", 0)
\* Some(Ok(record)) of next(), Ok(record) of from_line
OkRec(rec) == Result("Ok", rec, "", 0)
\* Some(Err(e)) of next(), Err(e) of from_line and fill_buffer
ErrRes(e) == Result("Err", NoRecord, e, 0)
\* Ok(n_items_added) of fill_buffer
OkCount(n) == Result("Count", NoRecord, "", n)
\* the call does not return
Diverges == Result("Diverges", NoRecord, "", 0)

(***************************************************************************)
(* GVcfRecord::from_line                                                   *)
(***************************************************************************)
ParseU32Ok(v) == v >= 0

\* the text of the fifth item of line.splitn(6, '\t'), as its comma-separated
\* entries: with exactly five columns it runs to the end of the line and so
\* ends with the line terminator
AltField(l) ==
    IF l.nf = 5 /\ l.nl /\ Len(l.alt) > 0
    THEN [i \in 1..Len(l.alt) |->
            IF i = Len(l.alt) THEN l.alt[i] \o "\n" ELSE l.alt[i]]
    ELSE l.alt

\* a slip: any <NON_REF> entry in ALT makes the line invariant
IsNonRefOnly_AnyEntry(alt) == \E i \in 1..Len(alt) : alt[i] = NON_REF

IsNonRefOnly(alt) == alt = << NON_REF >>

KeepAllele(a) == a # NON_REF

GVcfRecord_from_line(l) ==
    IF l.nf < 5 THEN ErrRes("GVCFLineNotEnoughFields")
    ELSE IF IsNonRefOnly(AltField(l)) THEN ErrRes("InvariantgVCFLine")
    ELSE IF ~ParseU32Ok(l.pos) THEN ErrRes("GVCFLineNotEnoughFields")
    ELSE OkRec([chrom |-> l.chrom, pos |-> l.pos,
                alleles |-> << l.ref >> \o SelectSeq(AltField(l), KeepAllele)])

(***************************************************************************)
(* The iterator as a value: [reader, line, section, buffer].               *)
(***************************************************************************)
It == [reader |-> reader, line |-> line, section |-> section, buffer |-> buffer]

NewIt == [reader |-> 0, line |-> EmptyLine, section |-> "Header", buffer |-> <<>>]

ClearLine(it) == [it EXCEPT !.line = EmptyLine]

\* self.reader.read_line(&mut self.line) on a cleared line
ReadLine(it) ==
    IF it.reader >= Len(stream)
    THEN [tag |-> "Eof", it |-> it]
    ELSE IF stream[it.reader + 1] = IoFailure
    THEN [tag |-> "IoErr", it |-> [it EXCEPT !.reader = @ + 1]]
    ELSE [tag |-> "Line",
          it |-> [it EXCEPT !.reader = @ + 1, !.line = stream[it.reader + 1]]]

StartsWithMeta(l) == l.lead = "##"

Ret(it, res) == [it |-> it, res |-> res]

\* the loop of process_header_and_first_variant, entered with a ## line in
\* self.line; brk tells that the loop was left by its break
RECURSIVE SkipMetaLines(_)
SkipMetaLines(it) ==
    LET r == ReadLine(ClearLine(it)) IN
    CASE r.tag = "Eof" -> [it |-> r.it, res |-> ErrRes("BrokenHeader"), brk |-> FALSE]
      [] r.tag = "IoErr" -> [it |-> r.it, res |-> ErrRes("Io"), brk |-> FALSE]
      [] OTHER ->
           IF ~StartsWithMeta(r.it.line)
           THEN [it |-> r.it, res |-> NoneRes, brk |-> TRUE]
           ELSE SkipMetaLines(r.it)

\* the second half of process_header_and_first_variant: the line after the
\* one that ended the loop
FirstVariant(it) ==
    LET r == ReadLine(ClearLine(it)) IN
    CASE r.tag = "Eof" -> Ret(r.it, NoneRes)
      [] r.tag = "IoErr" -> Ret(r.it, ErrRes("Io"))
      [] OTHER -> Ret([r.it EXCEPT !.section = "Body"],
                      GVcfRecord_from_line(r.it.line))

GVcf_process_header_and_first_variant(it) ==
    IF ~StartsWithMeta(it.line)
    THEN Ret(it, Diverges)     \* the loop neither reads nor breaks
    ELSE LET s == SkipMetaLines(it) IN
         IF s.brk THEN FirstVariant(s.it) ELSE Ret(s.it, s.res)

(***************************************************************************)
(* Iterator::next                                                          *)
(***************************************************************************)
GVcf_next(it) ==
    LET r == ReadLine(ClearLine(it)) IN
    CASE r.tag = "Eof" -> Ret(r.it, NoneRes)
      [] r.tag = "IoErr" -> Ret(r.it, ErrRes("Io"))
      [] OTHER ->
           IF r.it.section = "Body"
           THEN Ret(r.it, GVcfRecord_from_line(r.it.line))
           ELSE GVcf_process_header_and_first_variant(r.it)

(***************************************************************************)
(* fill_buffer and peek_items_in_buffer                                    *)
(***************************************************************************)
\* a slip: the loop stops one record short
FillWanted_OneShort(len, n) == len + 1 < n

\* a slip: the loop also runs when the buffer holds exactly n records
FillWanted_Inclusive(len, n) == len <= n

\* the condition of fill_buffer's while loop
FillWanted(len, n) == len < n

\* if let Some(Ok(record)) = result
IsSomeOk(res) == res.tag = "Ok"

\* Err(VcfParseError::InvariantgVCFLine) => continue
IsSkipped(res) == res.tag = "Err" /\ res.err = "InvariantgVCFLine"

PushBack(it, rec) == [it EXCEPT !.buffer = Append(@, rec)]

RECURSIVE FillLoop(_, _, _)
FillLoop(it, n, added) ==
    IF ~FillWanted(Len(it.buffer), n) THEN Ret(it, OkCount(added))
    ELSE
    LET r == ReadLine(ClearLine(it)) IN
    CASE r.tag = "Eof" -> Ret(r.it, OkCount(added))
      [] r.tag = "IoErr" -> Ret(r.it, ErrRes("Io"))
      [] OTHER ->
           IF r.it.section = "Header"
           THEN LET h == GVcf_process_header_and_first_variant(r.it) IN
                IF h.res.tag = "Diverges" THEN h
                ELSE IF IsSomeOk(h.res)
                THEN FillLoop(PushBack(h.it, h.res.rec), n, added + 1)
                ELSE FillLoop(h.it, n, added)
           ELSE LET d == GVcfRecord_from_line(r.it.line) IN
                IF d.tag = "Ok"
                THEN FillLoop(PushBack(r.it, d.rec), n, added + 1)
                ELSE IF IsSkipped(d) THEN FillLoop(r.it, n, added)
                ELSE Ret(r.it, d)

fill_buffer(it, n) == FillLoop(it, n, 0)

\* a slip: the buffer is drained instead of borrowed
peek_items_in_buffer_Draining(it) == Ret([it EXCEPT !.buffer = <<>>], it.buffer)

peek_items_in_buffer(it) == Ret(it, it.buffer)

(***************************************************************************)
(* The VCF record iterator (src/src/vcf_iterator.rs).                      *)
(*                                                                         *)
(* A VCF line is modelled by its prefix, the number of fixed columns it    *)
(* has (at most nine), the fields the decoder reads, the FORMAT column as  *)
(* its colon-separated keys, and every sample column as its sequence of    *)
(* characters, so that the splits, the prefix test and the integer parse   *)
(* of the decoder are computed and not assumed.                            *)
(***************************************************************************)
MISSING_GT == -1
VCF_MIN_COLUMNS == 9

VLine(lead, fixed, chrom, pos, ref, alt, qual, format, samples) ==
    [lead |-> lead, fixed |-> fixed, chrom |-> chrom, pos |-> pos, ref |-> ref,
     alt |-> alt, qual |-> qual, format |-> format, samples |-> samples]

\* line.trim_end().split('\t').collect().len()
NumCols(l) == l.fixed + Len(l.samples)

EmptyVLine == VLine("", 0, "", -1, "", <<>>, "", <<>>, <<>>)
VIoFailure == VLine("<io error>", 0, "", -1, "", <<>>, "", <<>>, <<>>)

(***************************************************************************)
(* Text helpers: str::split, str::starts_with, str::parse::<i32>.          *)
(***************************************************************************)
HasSep(s, seps) == \E i \in 1..Len(s) : s[i] \in seps

FirstSep(s, seps) ==
    CHOOSE i \in 1..Len(s) : s[i] \in seps /\ \A j \in 1..(i - 1) : s[j] \notin seps

\* s.split(|c| c in seps): always at least one piece
RECURSIVE SplitOn(_, _)
SplitOn(s, seps) ==
    IF ~HasSep(s, seps) THEN << s >>
    ELSE LET i == FirstSep(s, seps) IN
         << SubSeq(s, 1, i - 1) >> \o SplitOn(SubSeq(s, i + 1, Len(s)), seps)

StartsWith(s, p) == Len(p) <= Len(s) /\ SubSeq(s, 1, Len(p)) = p

Digits == {"0", "1", "2", "3", "4", "5", "6", "7", "8", "9"}

DigitVal(c) ==
    CASE c = "0" -> 0 [] c = "1" -> 1 [] c = "2" -> 2 [] c = "3" -> 3
      [] c = "4" -> 4 [] c = "5" -> 5 [] c = "6" -> 6 [] c = "7" -> 7
      [] c = "8" -> 8 [] c = "9" -> 9

I32Tenth == 214748364

\* the digits of a numeral, accumulated as i32::from_str does, with its
\* overflow check; neg tells that the numeral began with '-'
RECURSIVE ParseDigits(_, _, _)
ParseDigits(ds, acc, neg) ==
    IF ds = <<>> THEN [ok |-> TRUE, val |-> IF neg THEN 0 - acc ELSE acc]
    ELSE IF Head(ds) \notin Digits THEN [ok |-> FALSE, val |-> 0]
    ELSE IF acc > I32Tenth
            \/ (acc = I32Tenth /\ DigitVal(Head(ds)) > (IF neg THEN 8 ELSE 7))
    THEN [ok |-> FALSE, val |-> 0]
    ELSE ParseDigits(Tail(ds), acc * 10 + DigitVal(Head(ds)), neg)

\* allele_str.parse::<i32>()
ParseI32(s) ==
    IF s = <<>> THEN [ok |-> FALSE, val |-> 0]
    ELSE IF Head(s) \in {"+", "-"}
    THEN IF Len(s) = 1 THEN [ok |-> FALSE, val |-> 0]
         ELSE ParseDigits(Tail(s), 0, Head(s) = "-")
    ELSE ParseDigits(s, 0, FALSE)

(***************************************************************************)
(* Results of the VCF decoder.                                             *)
(***************************************************************************)
NoVcfRecord == [chrom |-> "", pos |-> 0, alleles |-> <<>>, qual |-> "", genotypes |-> <<>>]

VResult(tag, rec, err, observed, given) ==
    [tag |-> tag, rec |-> rec, err |-> err, observed |-> observed, given |-> given]

VNone == VResult("None", NoVcfRecord, "", 0, 0)
VOk(rec) == VResult("Ok", rec, "", 0, 0)
VErr(e) == VResult("Err", NoVcfRecord, e, 0, 0)
\* an index out of bounds in set_gt: the call panics
VPanic == VResult("Panic", NoVcfRecord, "", 0, 0)

(***************************************************************************)
(* set_gt, parse_allele, get_gt_index_from_format_field, look_for_ploidy   *)
(***************************************************************************)
\* genotypes[sample_idx * ploidy + allele_idx] = value; the sequence is
\* 1-based here, and an index past its end is the panic of the Vec
SetGtInBounds(genotypes, sample_idx, allele_idx, ploidy) ==
    sample_idx * ploidy + allele_idx < Len(genotypes)

set_gt(genotypes, sample_idx, allele_idx, ploidy, value) ==
    [genotypes EXCEPT ![sample_idx * ploidy + allele_idx + 1] = value]

parse_allele(allele_str) ==
    IF allele_str = << "." >> THEN [ok |-> TRUE, val |-> MISSING_GT]
    ELSE ParseI32(allele_str)

\* position of "GT" among the keys of the FORMAT column, zero-based; -1 when
\* there is none
GtPosition(format) ==
    IF \E i \in 1..Len(format) : format[i] = "GT"
    THEN (CHOOSE i \in 1..Len(format) :
             format[i] = "GT" /\ \A j \in 1..(i - 1) : format[j] # "GT") - 1
    ELSE -1

get_gt_index_from_format_field(l) ==
    IF NumCols(l) < VCF_MIN_COLUMNS THEN [ok |-> FALSE, err |-> "FormatColumnNotFound", idx |-> 0]
    ELSE IF GtPosition(l.format) < 0 THEN [ok |-> FALSE, err |-> "MissingGtFieldInFormat", idx |-> 0]
    ELSE [ok |-> TRUE, err |-> "", idx |-> GtPosition(l.format)]

\* sample_field.split(':').nth(gt_idx)
GtOf(sample_field, gt_idx) ==
    LET parts == SplitOn(sample_field, {":"}) IN
    IF gt_idx < Len(parts) THEN [ok |-> TRUE, gt |-> parts[gt_idx + 1]]
    ELSE [ok |-> FALSE, gt |-> <<>>]

AlleleSeparators == {"/", "|"}

\* a slip: the first sample column gives the ploidy even when its genotype
\* is "."
PloidyFrom_FirstSample(samples, i, gt_idx) ==
    IF i > Len(samples) THEN [ok |-> FALSE, err |-> "ErrorFindingPloidy", ploidy |-> 0]
    ELSE LET g == GtOf(samples[i], gt_idx) IN
         IF ~g.ok THEN [ok |-> FALSE, err |-> "MissingGtField", ploidy |-> 0]
         ELSE [ok |-> TRUE, err |-> "", ploidy |-> Len(SplitOn(g.gt, AlleleSeparators))]

RECURSIVE PloidyFrom(_, _, _)
PloidyFrom(samples, i, gt_idx) ==
    IF i > Len(samples) THEN [ok |-> FALSE, err |-> "ErrorFindingPloidy", ploidy |-> 0]
    ELSE LET g == GtOf(samples[i], gt_idx) IN
         IF ~g.ok THEN [ok |-> FALSE, err |-> "MissingGtField", ploidy |-> 0]
         ELSE IF g.gt = << "." >> THEN PloidyFrom(samples, i + 1, gt_idx)
         ELSE [ok |-> TRUE, err |-> "", ploidy |-> Len(SplitOn(g.gt, AlleleSeparators))]

\* a slip: the inference checks the column count as the decoder does
look_for_ploidy_ChecksColumns(l) ==
    IF NumCols(l) < VCF_MIN_COLUMNS THEN [ok |-> FALSE, err |-> "NotEnoughColumns", ploidy |-> 0]
    ELSE LET f == get_gt_index_from_format_field(l) IN
         IF ~f.ok THEN [ok |-> FALSE, err |-> f.err, ploidy |-> 0]
         ELSE PloidyFrom(l.samples, 1, f.idx)

look_for_ploidy(l) ==
    LET f == get_gt_index_from_format_field(l) IN
    IF ~f.ok THEN [ok |-> FALSE, err |-> f.err, ploidy |-> 0]
    ELSE PloidyFrom(l.samples, 1, f.idx)

(***************************************************************************)
(* VcfRecord::from_line                                                    *)
(***************************************************************************)
\* the texts of the QUAL column that parse::<f32> accepts
FloatTexts == {"29", "67", "47", "50", "3"}

\* a slip: the matrix is allocated one cell too long
Zeros_OneMore(n) == [i \in 1..(n + 1) |-> 0]

Zeros(n) == [i \in 1..n |-> 0]

\* the allele tokens of one genotype, from token k on: st is
\* [g: genotypes, a: allele_idx, out: "" | "Err" | "Panic"]
RECURSIVE DecodeAlleles(_, _, _, _, _)
DecodeAlleles(tokens, k, st, sample_idx, ploidy) ==
    IF k > Len(tokens) THEN st
    ELSE IF tokens[k] = << "0" >>
    THEN DecodeAlleles(tokens, k + 1, [st EXCEPT !.a = @ + 1], sample_idx, ploidy)
    ELSE LET v == parse_allele(tokens[k]) IN
         IF ~v.ok THEN [st EXCEPT !.out = "Err"]
         ELSE IF ~SetGtInBounds(st.g, sample_idx, st.a, ploidy)
         THEN [st EXCEPT !.out = "Panic"]
         ELSE DecodeAlleles(tokens, k + 1,
                  [st EXCEPT !.g = set_gt(st.g, sample_idx, st.a, ploidy, v.val),
                             !.a = @ + 1],
                  sample_idx, ploidy)

\* the cells of a sample whose genotype is ".", from cell allele_idx on
RECURSIVE SetMissing(_, _, _, _)
SetMissing(genotypes, sample_idx, allele_idx, ploidy) ==
    IF allele_idx >= ploidy THEN [g |-> genotypes, panic |-> FALSE]
    ELSE IF ~SetGtInBounds(genotypes, sample_idx, allele_idx, ploidy)
    THEN [g |-> genotypes, panic |-> TRUE]
    ELSE SetMissing(set_gt(genotypes, sample_idx, allele_idx, ploidy, MISSING_GT),
                    sample_idx, allele_idx + 1, ploidy)

\* gt_idx == 0 && sample_field.starts_with(reference_gt)
IsReferenceFastPath(gt_idx, sample_field, reference_gt) ==
    gt_idx = 0 /\ StartsWith(sample_field, reference_gt)

\* the loop over the sample columns, from sample i (1-based) on: st is
\* [g: genotypes, obs: observed_ploidy or -1 for None, res: "" or the way
\* the loop was left]
RECURSIVE DecodeSamples(_, _, _, _, _, _)
DecodeSamples(samples, i, st, gt_idx, ploidy, reference_gt) ==
    IF i > Len(samples) THEN st
    ELSE IF IsReferenceFastPath(gt_idx, samples[i], reference_gt)
    THEN DecodeSamples(samples, i + 1, st, gt_idx, ploidy, reference_gt)
    ELSE LET g == GtOf(samples[i], gt_idx) IN
    IF ~g.ok THEN [st EXCEPT !.res = "MissingGtField"]
    ELSE IF g.gt = reference_gt
    THEN DecodeSamples(samples, i + 1, [st EXCEPT !.obs = ploidy],
                       gt_idx, ploidy, reference_gt)
    ELSE IF g.gt = << "." >>
    THEN LET m == SetMissing(st.g, i - 1, 0, ploidy) IN
         IF m.panic THEN [st EXCEPT !.res = "Panic"]
         ELSE DecodeSamples(samples, i + 1, [st EXCEPT !.g = m.g],
                            gt_idx, ploidy, reference_gt)
    ELSE LET d == DecodeAlleles(SplitOn(g.gt, AlleleSeparators), 1,
                                [g |-> st.g, a |-> 0, out |-> ""], i - 1, ploidy) IN
         IF d.out = "Err" THEN [st EXCEPT !.res = "InvalidAllele"]
         ELSE IF d.out = "Panic" THEN [st EXCEPT !.res = "Panic"]
         ELSE IF st.obs # -1 /\ st.obs # d.a THEN [st EXCEPT !.res = "InconsistentPloidies"]
         ELSE DecodeSamples(samples, i + 1,
                            [st EXCEPT !.g = d.g, !.obs = d.a],
                            gt_idx, ploidy, reference_gt)

VcfAlleles(l) == IF l.alt = << "." >> THEN << l.ref >> ELSE << l.ref >> \o l.alt

VcfRecord_from_line(num_samples, ploidy, reference_gt, l) ==
    IF NumCols(l) < VCF_MIN_COLUMNS THEN VErr("NotEnoughColumns")
    ELSE IF l.qual # "." /\ l.qual \notin FloatTexts THEN VErr("InvalidQuality")
    ELSE LET f == get_gt_index_from_format_field(l) IN
    IF ~f.ok THEN VErr(f.err)
    ELSE LET d == DecodeSamples(l.samples, 1,
                      [g |-> Zeros(num_samples * ploidy), obs |-> -1, res |-> ""],
                      f.idx, ploidy, reference_gt) IN
    IF d.res = "Panic" THEN VPanic
    ELSE IF d.res # "" THEN VErr(d.res)
    ELSE IF d.obs # -1 /\ d.obs # ploidy
    THEN VResult("Err", NoVcfRecord, "DifferentObservedPloidy", d.obs, ploidy)
    ELSE IF ~ParseU32Ok(l.pos) THEN VErr("InvalidPosition")
    ELSE VOk([chrom |-> l.chrom, pos |-> l.pos, alleles |-> VcfAlleles(l),
              qual |-> l.qual, genotypes |-> d.g])

(***************************************************************************)
(* The decoder on its own: VcfRecord::from_line applied once to a line of  *)
(* nine fixed columns and a few sample columns, under a session state      *)
(* (num_samples, ploidy, reference_gt) the iterator can be in.             *)
(***************************************************************************)
\* most sample columns of a decoded line
MaxColumns == 2
\* largest session ploidy
MaxPloidy == 3
\* largest num_samples of the session
MaxDeclared == 2

\* 0/0 0|0 0/1 1|2 . ./1 0/0/1 0/01 0/1/2 5/6000 0 1 1/x 1/-2 -1/1
GenotypeTexts ==
    { << "0", "/", "0" >>, << "0", "|", "0" >>, << "0", "/", "1" >>,
      << "1", "|", "2" >>, << "." >>, << ".", "/", "1" >>,
      << "0", "/", "0", "/", "1" >>, << "0", "/", "0", "1" >>,
      << "0", "/", "1", "/", "2" >>, << "5", "/", "6", "0", "0", "0" >>,
      << "0" >>, << "1" >>, << "1", "/", "x" >>,
      << "1", "/", "-", "2" >>, << "-", "1", "/", "1" >> }

\* sample columns under FORMAT GT:GQ: the genotype, then :35 or nothing
SampleFieldsGtFirst ==
    { g \o << ":", "3", "5" >> : g \in GenotypeTexts }
        \cup { << "0", "/", "0" >>, << "." >>, << "0", "/", "1" >> }

\* sample columns under FORMAT GQ:GT: 35: and the genotype, or 35 alone
SampleFieldsGtSecond ==
    { << "3", "5", ":" >> \o g : g \in GenotypeTexts } \cup { << "3", "5" >> }

GT_GQ == << "GT", "GQ" >>
GQ_GT == << "GQ", "GT" >>

DecodeLine(format, samples) == VLine("", 9, "20", 14370, "G", << "A" >>, "29", format, samples)

DecodeLines ==
    { DecodeLine(GT_GQ, ss) :
        ss \in UNION { [1..k -> SampleFieldsGtFirst] : k \in 1..MaxColumns } }
    \cup
    { DecodeLine(GQ_GT, ss) :
        ss \in UNION { [1..k -> SampleFieldsGtSecond] : k \in 1..MaxColumns } }

VARIABLES
    d_line,          \* the line handed to VcfRecord::from_line
    d_num_samples,   \* its num_samples argument
    d_ploidy,        \* its ploidy argument
    d_reference_gt,  \* its reference_gt argument
    d_result,        \* what it returned
    decoded          \* it has been called

dvars == << d_line, d_num_samples, d_ploidy, d_reference_gt, d_result, decoded >>

(***************************************************************************)
(* Compression sniffing and the openers (src/src/utils_magic.rs, the       *)
(* constructors of src/src/vcf_iterator.rs and src/src/region_splitter.rs).*)
(*                                                                         *)
(* An input is its bytes and, for a gzip member, whether its header        *)
(* carries the block-gzip extra field.  A BufReader is the bytes it holds, *)
(* how many of them were consumed, and how far it has read its source.     *)
(* What the file system, the block-gzip library and the thread pool answer *)
(* is chosen when the opener is called.                                    *)
(***************************************************************************)
\* longest input, in bytes
MaxBytes == 5
\* bytes a BufReader fetches at most in one fill
BufCapacity == 4

\* the two gzip magic bytes, 0x1f and 0x8b
GZIP_ID1 == 31
GZIP_ID2 == 139
\* how many leading bytes the openers look at
num_bytes == 4

\* 0x1f, 0x8b, '#', '\n'
ByteValues == { GZIP_ID1, GZIP_ID2, 35, 10 }

ByteStrings == UNION { [1..k -> ByteValues] : k \in 0..MaxBytes }

HasGzipMagic(bytes) == Len(bytes) >= 2 /\ bytes[1] = GZIP_ID1 /\ bytes[2] = GZIP_ID2

Inputs ==
    { [bytes |-> b, bgzf |-> FALSE] : b \in ByteStrings }
        \cup { [bytes |-> b, bgzf |-> TRUE] : b \in { x \in ByteStrings : HasGzipMagic(x) } }

NoInput == [bytes |-> <<>>, bgzf |-> FALSE]

Min(a, b) == IF a < b THEN a ELSE b

OResult(tag, err, got, need, value) ==
    [tag |-> tag, err |-> err, got |-> got, need |-> need, value |-> value]

OOk(value) == OResult("Ok", "", 0, 0, value)
OErr(e) == OResult("Err", e, 0, 0, FALSE)
NoResult == OResult("None", "", 0, 0, FALSE)

\* a slip: only the first byte is compared
are_gzipped_magic_bytes_FirstByteOnly(first_bytes) ==
    IF Len(first_bytes) < 2
    THEN OResult("Err", "InsufficientBytes", Len(first_bytes), 2, FALSE)
    ELSE OOk(first_bytes[1] = GZIP_ID1)

are_gzipped_magic_bytes(first_bytes) ==
    IF Len(first_bytes) < 2
    THEN OResult("Err", "InsufficientBytes", Len(first_bytes), 2, FALSE)
    ELSE OOk(first_bytes[1] = GZIP_ID1 /\ first_bytes[2] = GZIP_ID2)

\* BufReader::new
BufReaderNew == [buf |-> <<>>, pos |-> 0, src |-> 0]

\* no reader: the opener returned no iterator
NoReader == [buf |-> <<>>, pos |-> -1, src |-> -1]

\* BufRead::fill_buf: fetches from the source when the buffer is used up;
\* consumes nothing
fill_buf(r, bytes) ==
    IF r.pos < Len(r.buf) THEN r
    ELSE LET n == Min(BufCapacity, Len(bytes) - r.src) IN
         [buf |-> SubSeq(bytes, r.src + 1, r.src + n), pos |-> 0, src |-> r.src + n]

\* the bytes fill_buf hands out
Buffered(r) == SubSeq(r.buf, r.pos + 1, Len(r.buf))

\* BufRead::consume
consume(r, n) == [r EXCEPT !.pos = Min(@ + n, Len(r.buf))]

\* &buffer[..num_bytes.min(buffer.len())]
FirstBytes(buf) == SubSeq(buf, 1, Min(num_bytes, Len(buf)))

\* what the reader will still deliver: its unconsumed bytes, then the rest
\* of its source
Remaining(r, bytes) == Buffered(r) \o SubSeq(bytes, r.src + 1, Len(bytes))

\* BufRead::read_line on a fresh line: fill, take the bytes up to and
\* including the first '\n', consume them, and go on while no '\n' was seen
RECURSIVE read_until(_, _, _)
read_until(r, bytes, acc) ==
    LET f == fill_buf(r, bytes)
        avail == Buffered(f) IN
    IF avail = <<>> THEN [reader |-> f, line |-> acc]
    ELSE IF \E i \in 1..Len(avail) : avail[i] = 10
    THEN LET i == CHOOSE i \in 1..Len(avail) :
                      avail[i] = 10 /\ \A j \in 1..(i - 1) : avail[j] # 10 IN
         [reader |-> consume(f, i), line |-> acc \o SubSeq(avail, 1, i)]
    ELSE read_until(consume(f, Len(avail)), bytes, acc \o avail)

read_line(r, bytes) == read_until(r, bytes, <<>>)

\* the answers of the environment to one opener call
Environments ==
    [path_ok : BOOLEAN, read_ok : BOOLEAN, bgzf_open_ok : BOOLEAN,
     pool_new_ok : BOOLEAN, pool_attach_ok : BOOLEAN]

AllOk == [path_ok |-> TRUE, read_ok |-> TRUE, bgzf_open_ok |-> TRUE,
          pool_new_ok |-> TRUE, pool_attach_ok |-> TRUE]

\* standard input can only fail to be read
StdinEnvironments ==
    { e \in Environments : e.path_ok /\ e.bgzf_open_ok /\ e.pool_new_ok /\ e.pool_attach_ok }

\* a plain or gzip file can fail to open or to be read
FileEnvironments ==
    { e \in Environments : e.bgzf_open_ok /\ e.pool_new_ok /\ e.pool_attach_ok }

\* a block-gzip opener: the path, the block-gzip reader and the pool can fail
BgzfEnvironments == { e \in Environments : e.read_ok }

\* what an opener returns: its result and the reader inside the iterator
Opened(res, r) == [res |-> res, reader |-> r]

file_is_gzipped(file, env) ==
    IF ~env.path_ok THEN OErr("ProblemOpeningFile")
    ELSE IF ~env.read_ok THEN OErr("ProblemFillingBuffer")
    ELSE are_gzipped_magic_bytes(FirstBytes(Buffered(fill_buf(BufReaderNew, file.bytes))))

\* the second-level check: gzip magic and the block-gzip extra field
file_is_bgzipped(file, env) ==
    LET g == file_is_gzipped(file, env) IN
    IF g.tag = "Err" THEN g ELSE OOk(g.value /\ file.bgzf)

\* a slip: the test of the path openers, which want gzip, is kept
from_stdin_WantsGzip(file, env) ==
    IF ~env.read_ok THEN Opened(OErr("Io"), NoReader)
    ELSE LET r == fill_buf(BufReaderNew, file.bytes)
             first_bytes == FirstBytes(Buffered(r))
             m == are_gzipped_magic_bytes(first_bytes) IN
         IF m.tag = "Err" THEN Opened(OErr("MagicByteError"), NoReader)
         ELSE IF ~m.value THEN Opened(OErr("GzipInStdinNotSupported"), NoReader)
         ELSE Opened(OOk(TRUE), r)

\* a slip: the sniffed bytes are taken out of the reader
from_stdin_Destructive(file, env) ==
    IF ~env.read_ok THEN Opened(OErr("Io"), NoReader)
    ELSE LET r == fill_buf(BufReaderNew, file.bytes)
             first_bytes == FirstBytes(Buffered(r))
             m == are_gzipped_magic_bytes(first_bytes) IN
         IF m.tag = "Err" THEN Opened(OErr("MagicByteError"), NoReader)
         ELSE IF m.value THEN Opened(OErr("GzipInStdinNotSupported"), NoReader)
         ELSE Opened(OOk(TRUE), consume(r, Len(first_bytes)))

\* VcfRecordIterator::from_stdin
from_stdin(file, env) ==
    IF ~env.read_ok THEN Opened(OErr("Io"), NoReader)
    ELSE LET r == fill_buf(BufReaderNew, file.bytes)
             first_bytes == FirstBytes(Buffered(r))
             m == are_gzipped_magic_bytes(first_bytes) IN
         IF m.tag = "Err" THEN Opened(OErr("MagicByteError"), NoReader)
         ELSE IF m.value THEN Opened(OErr("GzipInStdinNotSupported"), NoReader)
         ELSE Opened(OOk(TRUE), r)

\* BgzfReader::from_path, ThreadPool::new, set_thread_pool, then the
\* iterator over a reader of its own on the path
OpenBgzf(env) ==
    IF ~env.bgzf_open_ok THEN Opened(OErr("PathError"), NoReader)
    ELSE IF ~env.pool_new_ok THEN Opened(OErr("ThreadPoolError"), NoReader)
    ELSE IF ~env.pool_attach_ok THEN Opened(OErr("ThreadPoolError"), NoReader)
    ELSE Opened(OOk(TRUE), BufReaderNew)

\* VcfRecordIterator::from_gzipped_vcf_path
from_gzipped_vcf_path(file, env) ==
    IF ~env.path_ok \/ ~env.read_ok THEN Opened(OErr("Io"), NoReader)
    ELSE LET m == are_gzipped_magic_bytes(
                      FirstBytes(Buffered(fill_buf(BufReaderNew, file.bytes)))) IN
         IF m.tag = "Err" THEN Opened(OErr("MagicByteError"), NoReader)
         ELSE IF ~m.value THEN Opened(OErr("VCFFileShouldBeGzipped"), NoReader)
         ELSE OpenBgzf(env)

\* GVcfRecordIterator::from_bgzip_path
from_bgzip_path(file, env) ==
    LET b == file_is_bgzipped(file, env) IN
    IF b.tag = "Err" THEN Opened(OErr("MagicByteError"), NoReader)
    ELSE IF ~b.value THEN Opened(OErr("VCFFileShouldBeBGzipped"), NoReader)
    ELSE OpenBgzf(env)

\* GVcfRecordIterator::from_gzip_path
from_gzip_path(file, env) ==
    LET g == file_is_gzipped(file, env) IN
    IF g.tag = "Err" THEN Opened(OErr("MagicByteError"), NoReader)
    ELSE IF ~g.value THEN Opened(OErr("VCFFileShouldBeGzipped"), NoReader)
    ELSE IF ~env.path_ok THEN Opened(OErr("Io"), NoReader)
    ELSE Opened(OOk(TRUE), BufReaderNew)

OCall(op, k, env) == [op |-> op, k |-> k, env |-> env]

NoOCall == OCall("none", 0, AllOk)

VARIABLES
    o_input,    \* the file, or what standard input holds
    o_call,     \* the opener that was called and what the environment answered
    o_result,   \* what it returned
    o_reader,   \* the reader inside the iterator it returned
    o_section,  \* the section of the iterator it returned ("" when none)
    o_line,     \* the bytes of the first line read through the iterator
    o_read      \* whether that line was read

ovars == << o_input, o_call, o_result, o_reader, o_section, o_line, o_read >>

(***************************************************************************)
(* GVcfRecord::get_span, applied once to a record.                         *)
(***************************************************************************)
\* longest allele list of a record
MaxAlleles == 3

AlleleTexts == { "", "A", "AT", "ATT" }

\* positions stay far below u32::MAX, where pos + len would overflow
SpanPositions == { 0, 1, 10 }

SpanRecords ==
    { [chrom |-> "20", pos |-> p, alleles |-> a] :
        p \in SpanPositions,
        a \in UNION { [1..k -> AlleleTexts] : k \in 0..MaxAlleles } }

\* arithmetic overflow panics in a build with overflow checks and wraps in
\* one without
Builds == { "overflow-checks", "wrapping" }

SpanResult(tag, first, last_pos, err) ==
    [tag |-> tag, first |-> first, last |-> last_pos, err |-> err]

NoSpan == SpanResult("None", 0, 0, "")
SpanOk(a, b) == SpanResult("Ok", a, b, "")
SpanErr(e) == SpanResult("Err", 0, 0, e)
SpanPanic == SpanResult("Panic", 0, 0, "")
\* Ok((pos, u32::MAX)): pos + 0 - 1 wrapped at pos = 0
SpanWrapped(a) == SpanResult("OkWrapped", a, 0, "")

RECURSIVE MaxLen(_)
MaxLen(alleles) ==
    IF Len(alleles) = 1 THEN Len(alleles[1])
    ELSE LET m == MaxLen(Tail(alleles)) IN
         IF Len(alleles[1]) > m THEN Len(alleles[1]) ELSE m

\* a slip: the span ends one past the longest allele
get_span_OnePast(rec, build) ==
    IF rec.alleles = <<>> THEN SpanErr("RuntimeError")
    ELSE LET max_allele_len == MaxLen(rec.alleles) IN
         IF max_allele_len = 1 THEN SpanOk(rec.pos, rec.pos)
         ELSE SpanOk(rec.pos, rec.pos + max_allele_len)

get_span(rec, build) ==
    IF rec.alleles = <<>> THEN SpanErr("RuntimeError")
    ELSE LET max_allele_len == MaxLen(rec.alleles) IN
         IF max_allele_len = 1 THEN SpanOk(rec.pos, rec.pos)
         ELSE IF rec.pos + max_allele_len - 1 < 0
         THEN IF build = "overflow-checks" THEN SpanPanic ELSE SpanWrapped(rec.pos)
         ELSE SpanOk(rec.pos, rec.pos + max_allele_len - 1)

VARIABLES
    s_record,   \* the record get_span is called on
    s_build,    \* how the crate was built
    s_result,   \* what get_span returned
    s_called    \* get_span has been called

svars == << s_record, s_build, s_result, s_called >>

(***************************************************************************)
(* VcfRecordIterator                                                       *)
(***************************************************************************)
(***************************************************************************)
(* Lines and streams of the VCF iterator.  Sample columns are written      *)
(* character by character; the sub-fields after GQ, which the decoder      *)
(* never reads, are left out.                                              *)
(***************************************************************************)
\* longest enumerated VCF input stream, in lines
MaxVcfLines == 4

VMeta == VLine("##", 1, "##fileformat=VCFv4.5", -1, "", <<>>, "", <<>>, <<>>)

\* #CHROM POS ID REF ALT QUAL FILTER INFO FORMAT and the sample names
VChrom(names) == VLine("#CHROM", 9, "#CHROM", -1, "REF", << "ALT" >>, "QUAL", << "FORMAT" >>, names)

NA1 == << "N", "A", "1" >>
NA2 == << "N", "A", "2" >>
NA3 == << "N", "A", "3" >>

VChrom2 == VChrom(<< NA1, NA2 >>)
VChrom3 == VChrom(<< NA1, NA2, NA3 >>)
\* a #CHROM line cut after its fifth column
VChromShort == VLine("#CHROM", 5, "#CHROM", -1, "REF", << "ALT" >>, "", <<>>, <<>>)

VData(pos, ref, alt, qual, samples) == VLine("", 9, "20", pos, ref, alt, qual, GT_GQ, samples)

\* 0/1:35  1|2:40
VDataHet == VData(14370, "G", << "A", "T" >>, "29",
                  << << "0", "/", "1", ":", "3", "5" >>, << "1", "|", "2", ":", "4", "0" >> >>)
\* 0/0:41  0|0:48
VDataRef == VData(17330, "T", << "." >>, ".",
                  << << "0", "/", "0", ":", "4", "1" >>, << "0", "|", "0", ":", "4", "8" >> >>)
\* .:35  .:3
VDataMissing == VData(17331, "A", << "G" >>, "67",
                      << << ".", ":", "3", "5" >>, << ".", ":", "3" >> >>)
\* 0/1/2:21  0/1:3
VDataTriploid == VData(17332, "T", << "A" >>, "47",
                       << << "0", "/", "1", "/", "2", ":", "2", "1" >>, << "0", "/", "1", ":", "3" >> >>)
\* .:35  0/1/2:21
VDataMissingThenTriploid == VData(17334, "C", << "G" >>, "50",
                       << << ".", ":", "3", "5" >>, << "0", "/", "1", "/", "2", ":", "2", "1" >> >>)
\* a data line cut after its fifth column
VDataShort == VLine("", 5, "20", 17333, "GTC", << "G" >>, "", <<>>, <<>>)

SAMPLE_VCF ==
    [i \in 1..18 |-> VMeta] \o
    << VChrom3,
       \* 1|2:48  3|4:48  5/6000:43
       VLine("", 9, "20", 14370, "G", << "A" >>, "29", << "GT", "GQ", "DP", "HQ" >>,
             << << "1", "|", "2", ":", "4", "8" >>, << "3", "|", "4", ":", "4", "8" >>,
                << "5", "/", "6", "0", "0", "0", ":", "4", "3" >> >>),
       \* .|0:49  0|1:3  0/0:41
       VLine("", 9, "20", 17330, "T", << "A" >>, ".", << "GT", "GQ", "DP", "HQ" >>,
             << << ".", "|", "0", ":", "4", "9" >>, << "0", "|", "1", ":", "3" >>,
                << "0", "/", "0", ":", "4", "1" >> >>),
       \* 1|2:21  2|1:2  2/2:35
       VLine("", 9, "20", 1110696, "A", << "G", "T" >>, "67", << "GT", "GQ", "DP", "HQ" >>,
             << << "1", "|", "2", ":", "2", "1" >>, << "2", "|", "1", ":", "2" >>,
                << "2", "/", "2", ":", "3", "5" >> >>),
       \* 0|0:54  0|0:48  0/0:61
       VLine("", 9, "20", 1230237, "T", << "." >>, "47", << "GT", "GQ", "DP", "HQ" >>,
             << << "0", "|", "0", ":", "5", "4" >>, << "0", "|", "0", ":", "4", "8" >>,
                << "0", "/", "0", ":", "6", "1" >> >>),
       \* 0/1:35  0/2:17  1/1:40
       VLine("", 9, "20", 1234567, "GTC", << "G", "GTCT" >>, "50", << "GT", "GQ", "DP" >>,
             << << "0", "/", "1", ":", "3", "5" >>, << "0", "/", "2", ":", "1", "7" >>,
                << "1", "/", "1", ":", "4", "0" >> >>),
       \* .:35  0/2:17  ./1:40
       VLine("", 9, "20", 1234567, "GTC", << "G", "GTCT" >>, "50", << "GT", "GQ", "DP" >>,
             << << ".", ":", "3", "5" >>, << "0", "/", "2", ":", "1", "7" >>,
                << ".", "/", "1", ":", "4", "0" >> >>) >>

VLinePool ==
    { VMeta, VChrom2, VChromShort, VDataHet, VDataRef, VDataMissing,
      VDataTriploid, VDataMissingThenTriploid, VDataShort }

\* the streams of up to three reads on which some read fails
VIoFailureStreams ==
    { s \in UNION { [1..k -> {VMeta, VChrom2, VDataHet, VIoFailure}] : k \in 1..3 } :
        \E i \in 1..Len(s) : s[i] = VIoFailure }

VStreams ==
    UNION { [1..k -> VLinePool] : k \in 0..MaxVcfLines }
        \cup VIoFailureStreams \cup { SAMPLE_VCF }

VARIABLES
    vstream,       \* the lines behind the reader, fixed at construction
    vreader,       \* number of lines the reader has delivered so far
    vline,         \* VcfRecordIterator.line
    vsection,      \* VcfRecordIterator.section
    num_samples,   \* VcfRecordIterator.num_samples
    ploidy,        \* VcfRecordIterator.ploidy
    reference_gt,  \* VcfRecordIterator.reference_gt
    aborted,       \* a next() call panicked
    vlast,         \* what the last next() call returned
    vpre,          \* the iterator as it was when the last next() call began
    vout           \* the items next() has returned so far, in order

vvars == << vstream, vreader, vline, vsection, num_samples, ploidy,
            reference_gt, aborted, vlast, vpre, vout >>

vars == << gvars, vvars, dvars, ovars, svars >>

VIt == [reader |-> vreader, line |-> vline, section |-> vsection,
        num_samples |-> num_samples, ploidy |-> ploidy, reference_gt |-> reference_gt]

\* VcfRecordIterator::new
NewVIt == [reader |-> 0, line |-> EmptyVLine, section |-> "Header",
           num_samples |-> 0, ploidy |-> 0, reference_gt |-> <<>>]

VReadLine(it) ==
    IF it.reader >= Len(vstream)
    THEN [tag |-> "Eof", it |-> it]
    ELSE IF vstream[it.reader + 1] = VIoFailure
    THEN [tag |-> "IoErr", it |-> [it EXCEPT !.reader = @ + 1]]
    ELSE [tag |-> "Line",
          it |-> [it EXCEPT !.reader = @ + 1, !.line = vstream[it.reader + 1]]]

VClearLine(it) == [it EXCEPT !.line = EmptyVLine]

parse_variant(it) ==
    VcfRecord_from_line(it.num_samples, it.ploidy, it.reference_gt, it.line)

\* a slip: every column of the #CHROM line is counted as a sample
process_chrom_line_CountsAll(it) ==
    IF NumCols(it.line) < VCF_MIN_COLUMNS THEN it
    ELSE [it EXCEPT !.num_samples = NumCols(it.line)]

\* the value it returns is dropped by its only caller
process_chrom_line(it) ==
    IF NumCols(it.line) < VCF_MIN_COLUMNS THEN it
    ELSE [it EXCEPT !.num_samples = NumCols(it.line) - VCF_MIN_COLUMNS]

\* vec!["0"; ploidy].join("/")
RECURSIVE ReferenceGt(_)
ReferenceGt(p) ==
    IF p = 0 THEN <<>>
    ELSE IF p = 1 THEN << "0" >>
    ELSE << "0", "/" >> \o ReferenceGt(p - 1)

\* a slip: the section is moved to Body whether or not a ploidy was found
process_first_variant_line_AlwaysBody(it) ==
    LET p == look_for_ploidy(it.line) IN
    IF ~p.ok THEN Ret([it EXCEPT !.section = "Body"], VErr(p.err))
    ELSE LET it2 == [it EXCEPT !.ploidy = p.ploidy,
                               !.reference_gt = ReferenceGt(p.ploidy),
                               !.section = "Body"] IN
         Ret(it2, parse_variant(it2))

process_first_variant_line(it) ==
    LET p == look_for_ploidy(it.line) IN
    IF ~p.ok THEN Ret(it, VErr(p.err))
    ELSE LET it2 == [it EXCEPT !.ploidy = p.ploidy,
                               !.reference_gt = ReferenceGt(p.ploidy),
                               !.section = "Body"] IN
         Ret(it2, parse_variant(it2))

RECURSIVE Vcf_process_header_and_first_variant(_)
Vcf_process_header_and_first_variant(it) ==
    IF it.line.lead # "##" /\ it.line.lead # "#CHROM"
    THEN process_first_variant_line(it)
    ELSE LET it1 == IF it.line.lead = "##" THEN it ELSE process_chrom_line(it)
             r == VReadLine(VClearLine(it1)) IN
         CASE r.tag = "Eof" -> Ret(r.it, VNone)
           [] r.tag = "IoErr" -> Ret(r.it, VErr("Io"))
           [] OTHER -> Vcf_process_header_and_first_variant(r.it)

\* a slip: a line read in Body goes through the first-variant routine again
Vcf_next_ReinferInBody(it) ==
    LET r == VReadLine(VClearLine(it)) IN
    CASE r.tag = "Eof" -> Ret(r.it, VNone)
      [] r.tag = "IoErr" -> Ret(r.it, VErr("Io"))
      [] OTHER ->
           IF r.it.section = "Body"
           THEN process_first_variant_line(r.it)
           ELSE Vcf_process_header_and_first_variant(r.it)

Vcf_next(it) ==
    LET r == VReadLine(VClearLine(it)) IN
    CASE r.tag = "Eof" -> Ret(r.it, VNone)
      [] r.tag = "IoErr" -> Ret(r.it, VErr("Io"))
      [] OTHER ->
           IF r.it.section = "Body"
           THEN Ret(r.it, parse_variant(r.it))
           ELSE Vcf_process_header_and_first_variant(r.it)

(***************************************************************************)
(* The state machine: one action per public operation.                     *)
(***************************************************************************)
Call(op, n, res, items) == [op |-> op, n |-> n, res |-> res, items |-> items]

NoCall == Call("new", 0, NoneRes, <<>>)

Install(it) ==
    /\ reader' = it.reader
    /\ line' = it.line
    /\ section' = it.section
    /\ buffer' = it.buffer

\* the VCF iterator of a session that uses the gVCF iterator only
VcfIdle ==
    /\ vstream = <<>>
    /\ vreader = NewVIt.reader
    /\ vline = NewVIt.line
    /\ vsection = NewVIt.section
    /\ num_samples = NewVIt.num_samples
    /\ ploidy = NewVIt.ploidy
    /\ reference_gt = NewVIt.reference_gt
    /\ aborted = FALSE
    /\ vlast = VNone
    /\ vpre = NewVIt
    /\ vout = <<>>

\* the gVCF iterator of a session that uses the VCF iterator only
GVcfIdle ==
    /\ stream = <<>>
    /\ reader = NewIt.reader
    /\ line = NewIt.line
    /\ section = NewIt.section
    /\ buffer = NewIt.buffer
    /\ hung = FALSE
    /\ last = NoCall
    /\ pre = NewIt
    /\ out = <<>>
    /\ filled = FALSE

\* the decoder of a session that goes through the iterators only
SpanIdle ==
    /\ s_record = NoRecord
    /\ s_build = "overflow-checks"
    /\ s_result = NoSpan
    /\ s_called = FALSE

OpenIdle ==
    /\ o_input = NoInput
    /\ o_call = NoOCall
    /\ o_result = NoResult
    /\ o_reader = NoReader
    /\ o_section = ""
    /\ o_line = <<>>
    /\ o_read = FALSE

DecodeIdle ==
    /\ d_line = EmptyVLine
    /\ d_num_samples = 0
    /\ d_ploidy = 0
    /\ d_reference_gt = <<>>
    /\ d_result = VNone
    /\ decoded = FALSE

Init ==
    /\ VcfIdle
    /\ DecodeIdle
    /\ OpenIdle
    /\ SpanIdle
    /\ stream \in GStreams
    /\ reader = NewIt.reader
    /\ line = NewIt.line
    /\ section = NewIt.section
    /\ buffer = NewIt.buffer
    /\ hung = FALSE
    /\ last = NoCall
    /\ pre = NewIt
    /\ out = <<>>
    /\ filled = FALSE

CallNext ==
    /\ ~hung
    /\ LET r == GVcf_next(It) IN
       /\ Install(r.it)
       /\ hung' = (r.res.tag = "Diverges")
       /\ last' = Call("next", 0, r.res, <<>>)
       /\ out' = IF r.res.tag \in {"Ok", "Err"} THEN Append(out, r.res) ELSE out
    /\ pre' = It
    /\ UNCHANGED << stream, filled >>
    /\ UNCHANGED vvars
    /\ UNCHANGED dvars
    /\ UNCHANGED ovars
    /\ UNCHANGED svars

CallFillBuffer ==
    /\ ~hung
    /\ \E n \in 0..MaxFill :
         LET r == fill_buffer(It, n) IN
         /\ Install(r.it)
         /\ hung' = (r.res.tag = "Diverges")
         /\ last' = Call("fill_buffer", n, r.res, <<>>)
    /\ pre' = It
    /\ filled' = TRUE
    /\ UNCHANGED << stream, out >>
    /\ UNCHANGED vvars
    /\ UNCHANGED dvars
    /\ UNCHANGED ovars
    /\ UNCHANGED svars

CallPeek ==
    /\ ~hung
    /\ LET r == peek_items_in_buffer(It) IN
       /\ Install(r.it)
       /\ last' = Call("peek_items_in_buffer", 0, NoneRes, r.res)
    /\ pre' = It
    /\ UNCHANGED << stream, hung, out, filled >>
    /\ UNCHANGED vvars
    /\ UNCHANGED dvars
    /\ UNCHANGED ovars
    /\ UNCHANGED svars

Next == CallNext \/ CallFillBuffer \/ CallPeek

Spec == Init /\ [][Next]_vars

VInstall(it) ==
    /\ vreader' = it.reader
    /\ vline' = it.line
    /\ vsection' = it.section
    /\ num_samples' = it.num_samples
    /\ ploidy' = it.ploidy
    /\ reference_gt' = it.reference_gt

InitVcf ==
    /\ GVcfIdle
    /\ DecodeIdle
    /\ OpenIdle
    /\ SpanIdle
    /\ vstream \in VStreams
    /\ vreader = NewVIt.reader
    /\ vline = NewVIt.line
    /\ vsection = NewVIt.section
    /\ num_samples = NewVIt.num_samples
    /\ ploidy = NewVIt.ploidy
    /\ reference_gt = NewVIt.reference_gt
    /\ aborted = FALSE
    /\ vlast = VNone
    /\ vpre = NewVIt
    /\ vout = <<>>

VcfCallNext ==
    /\ ~aborted
    /\ LET r == Vcf_next(VIt) IN
       /\ VInstall(r.it)
       /\ aborted' = (r.res.tag = "Panic")
       /\ vlast' = r.res
       /\ vout' = IF r.res.tag \in {"Ok", "Err"} THEN Append(vout, r.res) ELSE vout
    /\ vpre' = VIt
    /\ UNCHANGED vstream
    /\ UNCHANGED gvars
    /\ UNCHANGED dvars
    /\ UNCHANGED ovars
    /\ UNCHANGED svars

NextVcf == VcfCallNext

SpecVcf == InitVcf /\ [][NextVcf]_vars

InitDecode ==
    /\ GVcfIdle
    /\ VcfIdle
    /\ OpenIdle
    /\ SpanIdle
    /\ d_line \in DecodeLines
    /\ d_num_samples \in 0..MaxDeclared
    /\ d_ploidy \in 1..MaxPloidy
    /\ d_reference_gt = ReferenceGt(d_ploidy)
    /\ d_result = VNone
    /\ decoded = FALSE

CallFromLine ==
    /\ ~decoded
    /\ d_result' = VcfRecord_from_line(d_num_samples, d_ploidy, d_reference_gt, d_line)
    /\ decoded' = TRUE
    /\ UNCHANGED << d_line, d_num_samples, d_ploidy, d_reference_gt >>
    /\ UNCHANGED gvars
    /\ UNCHANGED vvars
    /\ UNCHANGED ovars
    /\ UNCHANGED svars

NextDecode == CallFromLine

SpecDecode == InitDecode /\ [][NextDecode]_vars

(***************************************************************************)
(* The openers: one input, one call of an opener or of a sniffing function,*)
(* then the first line read through the iterator it returned.              *)
(***************************************************************************)
InitOpen ==
    /\ o_input \in Inputs
    /\ o_call = NoOCall
    /\ o_result = NoResult
    /\ o_reader = NoReader
    /\ o_section = ""
    /\ o_line = <<>>
    /\ o_read = FALSE
    /\ GVcfIdle
    /\ VcfIdle
    /\ DecodeIdle
    /\ SpanIdle

\* the iterator an opener returned, if any, is freshly constructed
Return(call, opened, sect) ==
    /\ o_call = NoOCall
    /\ o_call' = call
    /\ o_result' = opened.res
    /\ o_reader' = opened.reader
    /\ o_section' = IF opened.res.tag = "Ok" THEN sect ELSE ""
    /\ UNCHANGED << o_input, o_line, o_read >>
    /\ UNCHANGED gvars
    /\ UNCHANGED vvars
    /\ UNCHANGED dvars
    /\ UNCHANGED svars

CallAreGzippedMagicBytes ==
    \E k \in 0..Len(o_input.bytes) :
        Return(OCall("are_gzipped_magic_bytes", k, AllOk),
               Opened(are_gzipped_magic_bytes(SubSeq(o_input.bytes, 1, k)), NoReader), "")

CallFileIsGzipped ==
    \E env \in FileEnvironments :
        Return(OCall("file_is_gzipped", 0, env),
               Opened(file_is_gzipped(o_input, env), NoReader), "")

CallFromStdin ==
    \E env \in StdinEnvironments :
        Return(OCall("from_stdin", 0, env), from_stdin(o_input, env), NewVIt.section)

CallFromGzippedVcfPath ==
    \E env \in BgzfEnvironments :
        Return(OCall("from_gzipped_vcf_path", 0, env),
               from_gzipped_vcf_path(o_input, env), NewVIt.section)

CallFromGzipPath ==
    \E env \in FileEnvironments :
        Return(OCall("from_gzip_path", 0, env), from_gzip_path(o_input, env), NewIt.section)

CallFromBgzipPath ==
    \E env \in BgzfEnvironments :
        Return(OCall("from_bgzip_path", 0, env), from_bgzip_path(o_input, env), NewIt.section)

\* the first read_line of the iterator's header routine
ReadFirstLine ==
    /\ o_section = "Header"
    /\ ~o_read
    /\ LET rl == read_line(o_reader, o_input.bytes) IN
           /\ o_line' = rl.line
           /\ o_reader' = rl.reader
    /\ o_read' = TRUE
    /\ UNCHANGED << o_input, o_call, o_result, o_section >>
    /\ UNCHANGED gvars
    /\ UNCHANGED vvars
    /\ UNCHANGED dvars
    /\ UNCHANGED svars

NextOpen ==
    \/ CallAreGzippedMagicBytes
    \/ CallFileIsGzipped
    \/ CallFromStdin
    \/ CallFromGzippedVcfPath
    \/ CallFromGzipPath
    \/ CallFromBgzipPath
    \/ ReadFirstLine

SpecOpen == InitOpen /\ [][NextOpen]_vars

(***************************************************************************)
(* get_span applied once to a record.                                      *)
(***************************************************************************)
InitSpan ==
    /\ s_record \in SpanRecords
    /\ s_build \in Builds
    /\ s_result = NoSpan
    /\ s_called = FALSE
    /\ GVcfIdle
    /\ VcfIdle
    /\ DecodeIdle
    /\ OpenIdle

\* get_span takes &GVcfRecord: the record is left as it is
CallGetSpan ==
    /\ ~s_called
    /\ s_result' = get_span(s_record, s_build)
    /\ s_called' = TRUE
    /\ UNCHANGED << s_record, s_build >>
    /\ UNCHANGED gvars
    /\ UNCHANGED vvars
    /\ UNCHANGED dvars
    /\ UNCHANGED ovars

NextSpan == CallGetSpan

SpecSpan == InitSpan /\ [][NextSpan]_vars


(***************************************************************************)
(* Vocabulary of the properties, taken from the format description:        *)
(* what a well-formed gVCF stream is and what each data line stands for.   *)
(***************************************************************************)
IsHeaderText(l) == l.lead \in {"##", "#CHROM"}

IsDataLine(l) == l.lead = "" /\ l.nf >= 9 /\ l.pos >= 0 /\ Len(l.alt) >= 1

\* one or more ## lines, the #CHROM line, then data lines only
WellFormedG(s) ==
    \E m \in 2..Len(s) :
        /\ \A i \in 1..(m - 1) : s[i].lead = "##"
        /\ s[m].lead = "#CHROM"
        /\ \A i \in (m + 1)..Len(s) : IsDataLine(s[i])

\* index of the first line that is not a ## line (Len + 1 when there is none)
HeaderEnd(s) ==
    IF \E i \in 1..Len(s) : s[i].lead # "##"
    THEN CHOOSE i \in 1..Len(s) :
            s[i].lead # "##" /\ \A j \in 1..(i - 1) : s[j].lead = "##"
    ELSE Len(s) + 1

\* the ALT column of the text is exactly <NON_REF>
InvariantText(l) == l.alt = << NON_REF >>

RECURSIVE WithoutNonRef(_)
WithoutNonRef(alt) ==
    IF alt = <<>> THEN <<>>
    ELSE IF Head(alt) = NON_REF THEN WithoutNonRef(Tail(alt))
    ELSE << Head(alt) >> \o WithoutNonRef(Tail(alt))

\* the record a retained data line stands for
RecordOf(l) == [chrom |-> l.chrom, pos |-> l.pos,
                alleles |-> << l.ref >> \o WithoutNonRef(l.alt)]

\* the item a data line stands for
ItemOf(l) == IF InvariantText(l) THEN ErrRes("InvariantgVCFLine") ELSE OkRec(RecordOf(l))

\* the items of lines from..to of s
RECURSIVE ItemsOf(_, _, _)
ItemsOf(s, from, to) ==
    IF from > to THEN <<>> ELSE << ItemOf(s[from]) >> \o ItemsOf(s, from + 1, to)

\* the records of the retained lines among lines from..to of s
RECURSIVE RetainedOf(_, _, _)
RetainedOf(s, from, to) ==
    IF from > to THEN <<>>
    ELSE IF InvariantText(s[from]) THEN RetainedOf(s, from + 1, to)
    ELSE << RecordOf(s[from]) >> \o RetainedOf(s, from + 1, to)

RECURSIVE RecordsIn(_)
RecordsIn(items) ==
    IF items = <<>> THEN <<>>
    ELSE IF Head(items).tag = "Ok" THEN << Head(items).rec >> \o RecordsIn(Tail(items))
    ELSE RecordsIn(Tail(items))

CountTag(items, tag, err) ==
    Cardinality({ i \in 1..Len(items) : items[i].tag = tag /\ items[i].err = err })

\* the call recorded in last returned
Returned == last.res.tag # "Diverges"

(***************************************************************************)
(* C1. Claim: next() returns and removes the oldest buffered record while  *)
(* the buffer is non-empty and reads a fresh line only when the buffer is  *)
(* empty; so, on a well-formed stream, the records returned by next()      *)
(* followed by the records still buffered are the retained records of the  *)
(* lines read so far, in file order.                                       *)
(***************************************************************************)
C1_NextDrainsBufferFirst ==
    /\ (last.op = "next" /\ pre.buffer # <<>>) =>
          /\ last.res = OkRec(Head(pre.buffer))
          /\ buffer = Tail(pre.buffer)
          /\ reader = pre.reader
    /\ (WellFormedG(stream) /\ reader > 0) =>
          RecordsIn(out) \o buffer = RetainedOf(stream, HeaderEnd(stream) + 1, reader)

(***************************************************************************)
(* C2. fill_buffer(n) returns Ok(k) only when the buffer holds at least n  *)
(* records or the source is exhausted, k is the number of records the call *)
(* appended, and at end of stream the call returns Ok(0) and leaves the    *)
(* buffer as it was.                                                       *)
(***************************************************************************)
C2_FillBufferResult ==
    last.op = "fill_buffer" =>
        /\ last.res.tag = "Count" =>
              /\ Len(buffer) >= last.n \/ reader = Len(stream)
              /\ last.res.n = Len(buffer) - Len(pre.buffer)
        /\ pre.reader = Len(stream) =>
              /\ last.res = OkCount(0)
              /\ buffer = pre.buffer

C2_Witness ==
    /\ last.op = "fill_buffer"
    /\ last.res.tag = "Count"
    /\ last.res.n = 2
    /\ Len(buffer) = 3
    /\ reader < Len(stream)

(***************************************************************************)
(* C3. fill_buffer(n) on a buffer that already holds at least n records    *)
(* returns Ok(0), reads no line and leaves line position, section and      *)
(* buffer unchanged; and a fill_buffer(m) that directly follows a          *)
(* fill_buffer(n) that returned Ok, with m <= n, returns Ok(0).            *)
(***************************************************************************)
C3_FillBufferIdempotent ==
    [][ /\ (last'.op = "fill_buffer" /\ Len(buffer) >= last'.n) =>
             /\ last'.res = OkCount(0)
             /\ UNCHANGED << reader, section, buffer >>
        /\ ( /\ last.op = "fill_buffer" /\ last.res.tag = "Count"
             /\ last'.op = "fill_buffer" /\ last'.n <= last.n ) =>
             last'.res = OkCount(0)
      ]_vars

C3_Witness ==
    /\ last.op = "fill_buffer"
    /\ last.n = 2
    /\ Len(pre.buffer) = 3
    /\ last.res = OkCount(0)
    /\ reader < Len(stream)

(***************************************************************************)
(* C4. Claim: the buffer holds only records of non-invariant lines, in     *)
(* file order: each buffered record is the record of a line read so far    *)
(* whose ALT column is not exactly <NON_REF>, and later records come from  *)
(* later lines.                                                            *)
(***************************************************************************)
\* buffer[from..] can be matched, in order, to retained lines among k..reader
RECURSIVE BufferFrom(_, _)
BufferFrom(from, k) ==
    IF from > Len(buffer) THEN TRUE
    ELSE \E i \in k..reader :
            /\ stream[i] # IoFailure
            /\ ~InvariantText(stream[i])
            /\ buffer[from] = RecordOf(stream[i])
            /\ BufferFrom(from + 1, i + 1)

C4_BufferHoldsNoInvariant == BufferFrom(1, 1)

(***************************************************************************)
(* C5. peek_items_in_buffer() yields the buffer's records oldest first and *)
(* changes nothing: buffer, section and line position are as before, and   *)
(* a second call made right after the first yields the same sequence.      *)
(***************************************************************************)
C5_PeekIsPure ==
    [][ last'.op = "peek_items_in_buffer" =>
          /\ last'.items = buffer
          /\ UNCHANGED << reader, section, buffer, line >>
          /\ last.op = "peek_items_in_buffer" => last'.items = last.items
      ]_vars

C5_Witness ==
    /\ last.op = "peek_items_in_buffer"
    /\ Len(last.items) = 2
    /\ last.items[1].pos = 17330
    /\ last.items[2].pos = 17333

C7_NextNeverYieldsErr ==
    (WellFormedG(stream) /\ last.op = "next") => last.res.tag # "Err"

(***************************************************************************)
(* C8. Claim: when the stream ends before a #CHROM line was read (an empty *)
(* stream, or ## lines only), the first pull, by next() or by              *)
(* fill_buffer(n) with n > 0, reports BrokenHeader.                        *)
(***************************************************************************)
OnlyMetaLines(s) == \A i \in 1..Len(s) : s[i].lead = "##"

C8_BrokenHeaderBeforeChrom ==
    ( /\ OnlyMetaLines(stream)
      /\ pre.reader = 0
      /\ \/ last.op = "next"
         \/ last.op = "fill_buffer" /\ last.n > 0 ) =>
        last.res = ErrRes("BrokenHeader")

(***************************************************************************)
(* C9. Claim: a next() call that starts in Header consumes, before the     *)
(* line it turns into its item, only ## lines and the #CHROM line, and the *)
(* line it decodes as first item directly follows a #CHROM line.           *)
(***************************************************************************)
C9_HeaderConsumesOnlyHeaderLines ==
    (last.op = "next" /\ pre.section = "Header" /\ Returned) =>
        /\ \A i \in (pre.reader + 1)..reader :
              \/ IsHeaderText(stream[i])
              \/ i = reader /\ last.res.tag \in {"Ok", "Err"}
        /\ section = "Body" => (reader >= 2 /\ stream[reader - 1].lead = "#CHROM")

(***************************************************************************)
(* C10. Claim: the VCF iterator's section is Body from the next() call on  *)
(* that sees the first line that is neither a ## line nor the #CHROM line. *)
(***************************************************************************)
IsVcfDataLine(l) == l # VIoFailure /\ l.lead # "##" /\ l.lead # "#CHROM"

C10_BodyAtFirstDataLine ==
    (vsection = "Body") <=> (\E i \in 1..vreader : IsVcfDataLine(vstream[i]))

(***************************************************************************)
(* C10, amended. The VCF iterator's section is Body from the next() call   *)
(* on that sees the first line that is neither a ## line nor the #CHROM    *)
(* line and from which a ploidy is inferred; a data line from which none   *)
(* is inferred leaves the section at Header; the section changes at most   *)
(* once and never goes back from Body to Header.                           *)
(***************************************************************************)
PloidyInferred(l) == IsVcfDataLine(l) /\ look_for_ploidy(l).ok

C10_BodyAtFirstInferredPloidy ==
    /\ [] ((vsection = "Body") <=> (\E i \in 1..vreader : PloidyInferred(vstream[i])))
    /\ [][vsection = "Body" => vsection' = "Body"]_vars

C10_Witness ==
    /\ vsection = "Body"
    /\ vreader >= 2
    /\ PloidyInferred(vstream[vreader])
    /\ \A i \in 1..(vreader - 1) : ~PloidyInferred(vstream[i])
    /\ \E i \in 1..(vreader - 1) : IsVcfDataLine(vstream[i])

(***************************************************************************)
(* C11. The session state (num_samples, ploidy, reference_gt) is written   *)
(* only by next() calls that begin in Header: a call that begins in Body,  *)
(* whatever it returns, leaves the three values as they were; and in Body  *)
(* reference_gt is ploidy copies of "0" joined by "/".                     *)
(***************************************************************************)
\* s is p copies of "0" joined by "/"
IsReferenceString(s, p) ==
    /\ Len(s) = (IF p = 0 THEN 0 ELSE 2 * p - 1)
    /\ \A i \in 1..Len(s) : s[i] = (IF i % 2 = 1 THEN "0" ELSE "/")

C11_SessionStateFrozenInBody ==
    /\ [] (vsection = "Body" => (ploidy >= 1 /\ IsReferenceString(reference_gt, ploidy)))
    /\ [][vsection = "Body" => UNCHANGED << num_samples, ploidy, reference_gt >>]_vars

\* a call that began in Body returned an error for a triploid line, and the
\* session is still the diploid two-sample session it was
C11_Witness ==
    /\ vpre.section = "Body"
    /\ vlast.tag = "Err"
    /\ vstream[vreader] = VDataTriploid
    /\ ploidy = 2
    /\ num_samples = 2
    /\ reference_gt = << "0", "/", "0" >>

(***************************************************************************)
(* C12. Every record emitted as Ok by one VCF iterator session has         *)
(* num_samples * ploidy genotype cells, where num_samples is the number    *)
(* of sample columns of the #CHROM line read before the first data line    *)
(* that gave a ploidy (the last such line when there are several, 0 when   *)
(* there is none) and ploidy is the one that data line gave.               *)
(***************************************************************************)
\* number of '/' and '|' in a genotype text
SeparatorCount(gt) == Cardinality({ i \in 1..Len(gt) : gt[i] \in AlleleSeparators })

\* the GT sub-field of sample column i of line l
GtText(l, i) == GtOf(l.samples[i], GtPosition(l.format)).gt

\* the first sample column, in column order, whose GT sub-field is not "."
FirstCalledSample(l) ==
    CHOOSE i \in 1..Len(l.samples) :
        GtText(l, i) # << "." >> /\ \A j \in 1..(i - 1) : GtText(l, j) = << "." >>

\* index of the first line of s that gives a ploidy
FirstInferred(s) ==
    CHOOSE i \in 1..Len(s) : PloidyInferred(s[i]) /\ \A j \in 1..(i - 1) : ~PloidyInferred(s[j])

IsFullChromLine(l) == l.lead = "#CHROM" /\ l.fixed + Len(l.samples) >= 9

\* the sample columns declared by the last complete #CHROM line before line k
DeclaredSamples(s, k) ==
    IF \E i \in 1..(k - 1) : IsFullChromLine(s[i])
    THEN LET c == CHOOSE i \in 1..(k - 1) :
                     IsFullChromLine(s[i]) /\ \A j \in (i + 1)..(k - 1) : ~IsFullChromLine(s[j])
         IN Len(s[c].samples)
    ELSE 0

C12_GenotypesLength ==
    /\ \A i \in 1..Len(vout) :
          vout[i].tag = "Ok" => Len(vout[i].rec.genotypes) = num_samples * ploidy
    /\ vsection = "Body" =>
          LET k == FirstInferred(vstream) IN
          /\ num_samples = DeclaredSamples(vstream, k)
          /\ ploidy = SeparatorCount(GtText(vstream[k], FirstCalledSample(vstream[k]))) + 1

\* two records of a two-sample diploid session, the second decoded in Body
C12_Witness ==
    /\ vpre.section = "Body"
    /\ vlast.tag = "Ok"
    /\ Len(vout) >= 2
    /\ vout[1].tag = "Ok"
    /\ Len(vout[1].rec.genotypes) = 4
    /\ Len(vlast.rec.genotypes) = 4
    /\ num_samples = 2
    /\ ploidy = 2

(***************************************************************************)
(* C13. The ploidy is inferred from the first data line: it is the number  *)
(* of '/' and '|' plus one in the GT sub-field of the first sample column  *)
(* whose GT sub-field is not "."; when every sample's GT is "." the call   *)
(* returns ErrorFindingPloidy; otherwise the call's outcome is that of     *)
(* decoding that same line with the inferred ploidy, and it is the first   *)
(* item of the sequence when no read failed before it.                     *)
(***************************************************************************)
\* index of the first line of s that is neither a ## line nor a #CHROM line
FirstDataLine(s) ==
    CHOOSE i \in 1..Len(s) : IsVcfDataLine(s[i]) /\ \A j \in 1..(i - 1) : ~IsVcfDataLine(s[j])

\* the line has its FORMAT column with a GT key, and every sample column has
\* the GT sub-field
HasGenotypeColumns(l) ==
    /\ l.fixed + Len(l.samples) >= 9
    /\ \E i \in 1..Len(l.format) : l.format[i] = "GT"
    /\ \A i \in 1..Len(l.samples) : GtOf(l.samples[i], GtPosition(l.format)).ok

AllMissing(l) == \A i \in 1..Len(l.samples) : GtText(l, i) = << "." >>

C13_PloidyFromFirstDataLine ==
    ( /\ \E i \in 1..Len(vstream) : IsVcfDataLine(vstream[i])
      /\ vreader >= FirstDataLine(vstream)
      /\ HasGenotypeColumns(vstream[FirstDataLine(vstream)]) ) =>
        LET k == FirstDataLine(vstream)
            l == vstream[k]
            p == SeparatorCount(GtText(l, FirstCalledSample(l))) + 1
        IN IF AllMissing(l)
           THEN (vreader = k /\ vpre.reader < k) =>
                    (vlast = VErr("ErrorFindingPloidy") /\ vsection = "Header")
           ELSE /\ ploidy = p
                /\ (vreader = k /\ vpre.reader < k) =>
                      /\ vlast = VcfRecord_from_line(num_samples, p, reference_gt, l)
                      /\ ( /\ vlast.tag \in {"Ok", "Err"}
                           /\ \A i \in 1..(k - 1) : vstream[i] # VIoFailure ) =>
                            vout = << vlast >>

\* the first data line has a missing first sample and a triploid second one
C13_Witness ==
    /\ vreader >= 2
    /\ vstream[vreader] = VDataMissingThenTriploid
    /\ FirstDataLine(vstream) = vreader
    /\ ploidy = 3
    /\ vlast.tag = "Ok"
    /\ vlast.rec.genotypes = << -1, -1, -1, 0, 1, 2 >>

\* the first data line has every genotype missing
C13_WitnessAllMissing ==
    /\ vreader >= 2
    /\ vstream[vreader] = VDataMissing
    /\ FirstDataLine(vstream) = vreader
    /\ vlast = VErr("ErrorFindingPloidy")

(***************************************************************************)
(* Vocabulary of the genotype properties: what a sample column stands for, *)
(* read off its text without the decoder's loop.                           *)
(***************************************************************************)
\* the allele tokens of a genotype text
TokensOf(gt) == SplitOn(gt, AlleleSeparators)

TokenCount(gt) == SeparatorCount(gt) + 1

\* value of a sequence of decimal digits
RECURSIVE DecimalValue(_, _)
DecimalValue(ds, acc) ==
    IF ds = <<>> THEN acc ELSE DecimalValue(Tail(ds), acc * 10 + DigitVal(Head(ds)))

\* the token is "." or a non-empty sequence of decimal digits
IsAlleleToken(t) ==
    t = << "." >> \/ (t # <<>> /\ \A i \in 1..Len(t) : t[i] \in Digits)

TokenValue(t) == IF t = << "." >> THEN -1 ELSE DecimalValue(t, 0)

\* every genotype of the line is "." or made of allele tokens
AlleleTokensOnly(l) ==
    \A i \in 1..Len(l.samples) :
        \A k \in 1..TokenCount(GtText(l, i)) : IsAlleleToken(TokensOf(GtText(l, i))[k])

\* the cells a sample of ploidy p stands for
CellsOf(gt, p) ==
    IF gt = << "." >> THEN [k \in 1..p |-> -1]
    ELSE [k \in 1..p |-> TokenValue(TokensOf(gt)[k])]

\* the cells of sample column i in a matrix of stride p
SampleCells(genotypes, i, p) == SubSeq(genotypes, (i - 1) * p + 1, i * p)

\* some called genotype of the line has a number of tokens other than p
PloidyMismatch(l, p) ==
    \E i \in 1..Len(l.samples) :
        GtText(l, i) # << "." >> /\ TokenCount(GtText(l, i)) # p

(***************************************************************************)
(* C14. Claim: a line in which some sample's called genotype has a number  *)
(* of allele tokens other than the session ploidy is never emitted as Ok:  *)
(* its item is InconsistentPloidies or DifferentObservedPloidy, whichever  *)
(* sample column holds that genotype.  Stated for lines that are otherwise *)
(* in order: as many sample columns as the session declares, a GT          *)
(* sub-field in each, allele tokens only.                                  *)
(***************************************************************************)
C14_PloidyMismatchReported ==
    ( /\ decoded
      /\ HasGenotypeColumns(d_line)
      /\ Len(d_line.samples) = d_num_samples
      /\ AlleleTokensOnly(d_line)
      /\ PloidyMismatch(d_line, d_ploidy) ) =>
        /\ d_result.tag = "Err"
        /\ d_result.err \in {"InconsistentPloidies", "DifferentObservedPloidy"}

(***************************************************************************)
(* C15. Claim: in a decoded record, the cells of a sample whose GT         *)
(* sub-field has exactly ploidy allele tokens are the tokens' integer      *)
(* values in order, -1 for a "." token; the cells of a sample whose GT is  *)
(* "." are all -1; the cells of a sample whose GT is the reference string  *)
(* are all 0.                                                              *)
(***************************************************************************)
C15_CellsAreTokenValues ==
    (decoded /\ d_result.tag = "Ok") =>
        \A i \in 1..Len(d_line.samples) :
            LET gt == GtText(d_line, i)
                cells == SampleCells(d_result.rec.genotypes, i, d_ploidy)
            IN i <= d_num_samples =>
                 /\ gt = << "." >> => cells = [k \in 1..d_ploidy |-> -1]
                 /\ gt = d_reference_gt => cells = [k \in 1..d_ploidy |-> 0]
                 /\ ( /\ TokenCount(gt) = d_ploidy
                      /\ \A k \in 1..d_ploidy : IsAlleleToken(TokensOf(gt)[k]) ) =>
                        cells = CellsOf(gt, d_ploidy)

(***************************************************************************)
(* C16. Claim: the reference fast path does not change the result.  On a   *)
(* line whose FORMAT begins with GT, decoding gives the same outcome       *)
(* (success, error or abort) and, on success, the same cells as decoding   *)
(* every sample token by token; and a sample column is skipped only when   *)
(* the reference string in front of it is followed by ':' or by the end of *)
(* the column.                                                             *)
(***************************************************************************)
\* the decoder with a reference string that no sample column begins with,
\* so that every genotype goes through the token loop
TokenByToken(num, p, l) == VcfRecord_from_line(num, p, << "no reference" >>, l)

\* the column is the reference string alone or followed by ':'
AtSubFieldBoundary(sample_field, ref) ==
    \/ Len(sample_field) = Len(ref)
    \/ sample_field[Len(ref) + 1] = ":"

C16_FastPathPreservesResult ==
    (decoded /\ GtPosition(d_line.format) = 0) =>
        LET t == TokenByToken(d_num_samples, d_ploidy, d_line) IN
        /\ d_result.tag = t.tag
        /\ d_result.tag = "Ok" => d_result.rec.genotypes = t.rec.genotypes
        /\ \A i \in 1..Len(d_line.samples) :
              IsReferenceFastPath(0, d_line.samples[i], d_reference_gt) =>
                  AtSubFieldBoundary(d_line.samples[i], d_reference_gt)

(***************************************************************************)
(* C17. On a well-formed VCF stream (## lines, one #CHROM line, then valid *)
(* data lines of one ploidy) next() yields one Ok record per data line, in *)
(* file order, each with the cells its line stands for, the first from the *)
(* first data line; no error item; end-of-sequence only after the last     *)
(* line.  The three-sample example of six data lines yields six records.   *)
(***************************************************************************)
\* a data line of n samples and ploidy p that the format allows
ValidDataLine(l, n, p) ==
    /\ l.lead = ""
    /\ l.fixed = 9
    /\ Len(l.samples) = n
    /\ l.pos >= 1
    /\ l.qual \in FloatTexts \cup {"."}
    /\ HasGenotypeColumns(l)
    /\ AlleleTokensOnly(l)
    /\ ~PloidyMismatch(l, p)

\* the ploidy the first data line shows
ShownPloidy(l) == TokenCount(GtText(l, FirstCalledSample(l)))

WellFormedV(s) ==
    \E m \in 1..Len(s) :
        /\ \A i \in 1..(m - 1) : s[i].lead = "##"
        /\ IsFullChromLine(s[m])
        /\ Len(s[m].samples) >= 1
        /\ m < Len(s) =>
              /\ HasGenotypeColumns(s[m + 1])
              /\ ~AllMissing(s[m + 1])
              /\ \A i \in (m + 1)..Len(s) :
                    ValidDataLine(s[i], Len(s[m].samples), ShownPloidy(s[m + 1]))

\* index of the #CHROM line of a well-formed stream
ChromIndex(s) == CHOOSE m \in 1..Len(s) : s[m].lead = "#CHROM"

\* the cells of all the samples of a line, in column order
RECURSIVE CellsOfLine(_, _, _)
CellsOfLine(l, i, p) ==
    IF i > Len(l.samples) THEN <<>>
    ELSE CellsOf(GtText(l, i), p) \o CellsOfLine(l, i + 1, p)

\* the record a valid data line stands for
VcfRecordOf(l, p) ==
    [chrom |-> l.chrom, pos |-> l.pos,
     alleles |-> IF l.alt = << "." >> THEN << l.ref >> ELSE << l.ref >> \o l.alt,
     qual |-> l.qual, genotypes |-> CellsOfLine(l, 1, p)]

C17_OneRecordPerDataLine ==
    WellFormedV(vstream) =>
        LET m == ChromIndex(vstream) IN
        /\ ~aborted
        /\ vreader >= m =>
              /\ Len(vout) = vreader - m
              /\ \A j \in 1..Len(vout) :
                    vout[j] = VOk(VcfRecordOf(vstream[m + j], ShownPloidy(vstream[m + 1])))
        /\ vreader < m => vout = <<>>
        /\ (vlast = VNone /\ vreader > 0) => vreader = Len(vstream)
        /\ (vstream = SAMPLE_VCF /\ vreader = Len(vstream)) => Len(vout) = 6

\* the six records of the example, followed by end-of-sequence
C17_Witness ==
    /\ vstream = SAMPLE_VCF
    /\ vlast = VNone
    /\ vreader = Len(vstream)
    /\ Len(vout) = 6
    /\ vout[1].rec.genotypes = << 1, 2, 3, 4, 5, 6000 >>
    /\ vout[6].rec.genotypes = << -1, -1, 0, 2, -1, 1 >>

(***************************************************************************)
(* C18. Claim: a next() call that reads a #CHROM line of fewer than nine   *)
(* columns returns NotEnoughColumnsInChromLine; and while the section is   *)
(* Header num_samples is the number of columns minus nine of the last      *)
(* #CHROM line of nine or more columns read so far (0 when there is none). *)
(***************************************************************************)
IsShortChromLine(l) == l.lead = "#CHROM" /\ l.fixed + Len(l.samples) < 9

C18_ShortChromLineReported ==
    /\ (\E i \in (vpre.reader + 1)..vreader : IsShortChromLine(vstream[i])) =>
          vlast = VErr("NotEnoughColumnsInChromLine")
    /\ vsection = "Header" => num_samples = DeclaredSamples(vstream, vreader + 1)

(***************************************************************************)
(* C19. Claim: a next() call that begins in Body with a line left reads    *)
(* that one line and returns exactly one item, the record or the typed     *)
(* error of that line decoded under the session state, which it leaves as  *)
(* it was; a call that begins in Body at end of stream returns             *)
(* end-of-sequence.                                                        *)
(***************************************************************************)
C19_BodyLinesAreIndependent ==
    vpre.section = "Body" =>
        /\ << num_samples, ploidy, reference_gt, vsection >> =
              << vpre.num_samples, vpre.ploidy, vpre.reference_gt, "Body" >>
        /\ vpre.reader = Len(vstream) => (vlast = VNone /\ vreader = vpre.reader)
        /\ vpre.reader < Len(vstream) =>
              /\ vreader = vpre.reader + 1
              /\ vlast.tag \in {"Ok", "Err"}
              /\ vlast = (IF vstream[vreader] = VIoFailure THEN VErr("Io")
                          ELSE VcfRecord_from_line(num_samples, ploidy, reference_gt,
                                                   vstream[vreader]))

(***************************************************************************)
(* C20. Claim: decoding a line always ends in an Ok record or a typed      *)
(* error: no next() call aborts on a set_gt write past the end of the      *)
(* genotype matrix.                                                        *)
(***************************************************************************)
C20_DecodingNeverAborts == ~aborted /\ vlast.tag # "Panic"

(***************************************************************************)
(* C21. Claim: every cell of an emitted record is an allele index >= 0 or  *)
(* exactly -1, and -1 stands only where the line has a "." genotype or a   *)
(* "." allele token; and a line with an allele token that is neither a     *)
(* non-negative integer nor "." is not emitted: it fails with              *)
(* InvalidAllele.                                                          *)
(***************************************************************************)
\* cell k of sample column i stands for a "." of the text
MissingInText(l, i, k) ==
    \/ GtText(l, i) = << "." >>
    \/ k <= TokenCount(GtText(l, i)) /\ TokensOf(GtText(l, i))[k] = << "." >>

C21_CellsAreIndicesOrMissing ==
    decoded =>
        /\ d_result.tag = "Ok" =>
              \A i \in 1..d_num_samples : \A k \in 1..d_ploidy :
                  LET c == d_result.rec.genotypes[(i - 1) * d_ploidy + k] IN
                  /\ c >= -1
                  /\ c = -1 => (i <= Len(d_line.samples) /\ MissingInText(d_line, i, k))
        /\ (HasGenotypeColumns(d_line) /\ ~AlleleTokensOnly(d_line)) =>
              d_result = VErr("InvalidAllele")


(***************************************************************************)
(* C22: are_gzipped_magic_bytes, given fewer than 2 bytes, fails with      *)
(* InsufficientBytes { got: the length, need: 2 }; given 2 bytes or more   *)
(* it answers true exactly when the first byte is 0x1F and the second is   *)
(* 0x8B, whatever the later bytes are.                                     *)
(***************************************************************************)
SniffedBytes == SubSeq(o_input.bytes, 1, o_call.k)

C22_MagicBytes ==
    o_call.op = "are_gzipped_magic_bytes" =>
        IF o_call.k < 2
        THEN /\ o_result.tag = "Err"
             /\ o_result.err = "InsufficientBytes"
             /\ o_result.got = o_call.k
             /\ o_result.need = 2
        ELSE /\ o_result.tag = "Ok"
             /\ o_result.value <=> (SniffedBytes[1] = 31 /\ SniffedBytes[2] = 139)

C22_Witness ==
    /\ o_call.op = "are_gzipped_magic_bytes"
    /\ o_call.k >= 3
    /\ SniffedBytes[1] = 31 /\ SniffedBytes[2] = 139 /\ SniffedBytes[3] # 139
    /\ o_result = OOk(TRUE)


(***************************************************************************)
(* C23: sniffing consumes nothing.  The reader inside the iterator an      *)
(* opener returns still delivers its source from byte 0, and the first     *)
(* line read through the iterator is the first line of the source.         *)
(***************************************************************************)
FirstLineOf(bytes) ==
    IF \E i \in 1..Len(bytes) : bytes[i] = 10
    THEN SubSeq(bytes, 1, CHOOSE i \in 1..Len(bytes) :
                             bytes[i] = 10 /\ \A j \in 1..(i - 1) : bytes[j] # 10)
    ELSE bytes

C23_SniffDoesNotConsume ==
    /\ (o_section = "Header" /\ ~o_read) =>
           Remaining(o_reader, o_input.bytes) = o_input.bytes
    /\ o_read => o_line = FirstLineOf(o_input.bytes)

C23_Witness ==
    /\ o_call.op = "from_stdin"
    /\ o_read
    /\ Len(o_input.bytes) > num_bytes
    /\ o_line = o_input.bytes


(***************************************************************************)
(* C24: when standard input can be read and its first two bytes are the    *)
(* gzip magic (ordinary gzip or block-gzip), from_stdin returns            *)
(* GzipInStdinNotSupported and no iterator; whenever it returns an         *)
(* iterator, the input does not start with the gzip magic and the iterator *)
(* is in the Header section.                                               *)
(***************************************************************************)
StartsWithGzipMagic ==
    /\ Len(o_input.bytes) >= 2
    /\ o_input.bytes[1] = 31
    /\ o_input.bytes[2] = 139

C24_StdinRefusesGzip ==
    o_call.op = "from_stdin" =>
        /\ (o_call.env.read_ok /\ StartsWithGzipMagic) =>
               /\ o_result = OErr("GzipInStdinNotSupported")
               /\ o_reader = NoReader
               /\ o_section = ""
        /\ o_result.tag = "Ok" =>
               /\ ~StartsWithGzipMagic
               /\ o_section = "Header"
               /\ o_reader # NoReader
        /\ o_result.tag # "Ok" => (o_reader = NoReader /\ o_section = "")

C24_Witness ==
    /\ o_call.op = "from_stdin"
    /\ StartsWithGzipMagic
    /\ o_input.bgzf
    /\ o_result = OErr("GzipInStdinNotSupported")

C24_WitnessPlain ==
    /\ o_call.op = "from_stdin"
    /\ ~StartsWithGzipMagic
    /\ o_result.tag = "Ok"
    /\ o_section = "Header"


(***************************************************************************)
(* C25: a block-gzip opener given a file that can be opened and is not     *)
(* block-gzip (plain text, or ordinary gzip) returns a wrong-compression   *)
(* error and no iterator; given a block-gzip file whose reader opens, it   *)
(* returns ThreadPoolError and no iterator when the pool cannot be created *)
(* or cannot be attached.                                                  *)
(***************************************************************************)
BlockGzipOpeners == { "from_bgzip_path", "from_gzipped_vcf_path" }

\* MagicByteError is what a file too short to be sniffed gives
WrongCompressionErrors ==
    { "VCFFileShouldBeGzipped", "VCFFileShouldBeBGzipped", "MagicByteError" }

IsBlockGzip == StartsWithGzipMagic /\ o_input.bgzf

WrongCompressionReported ==
    (o_call.env.path_ok /\ ~IsBlockGzip) =>
        /\ o_result.tag = "Err"
        /\ o_result.err \in WrongCompressionErrors
        /\ o_reader = NoReader

PoolFailureReported ==
    (/\ o_call.env.path_ok
     /\ IsBlockGzip
     /\ o_call.env.bgzf_open_ok
     /\ ~(o_call.env.pool_new_ok /\ o_call.env.pool_attach_ok)) =>
        /\ o_result = OErr("ThreadPoolError")
        /\ o_reader = NoReader
        /\ o_section = ""

C25_BlockGzipOpenersReportFailures ==
    o_call.op \in BlockGzipOpeners => (WrongCompressionReported /\ PoolFailureReported)


(***************************************************************************)
(* C26: a data line of five columns or more that next() decodes in Body    *)
(* gives the invariant-line signal exactly when its ALT column is exactly  *)
(* <NON_REF>; otherwise it gives a record whose alleles are REF followed   *)
(* by the ALT entries in file order without the <NON_REF> entries, so that *)
(* no allele of a record is <NON_REF>.                                     *)
(***************************************************************************)
DecodedInBody ==
    /\ last.op = "next"
    /\ pre.section = "Body"
    /\ pre.buffer = <<>>
    /\ reader = pre.reader + 1
    /\ stream[reader].lead = ""
    /\ stream[reader].nf >= 5
    /\ stream[reader].pos >= 0

C26_DecoderTellsInvariantFromVariant ==
    DecodedInBody =>
        /\ last.res = ErrRes("InvariantgVCFLine") <=> stream[reader].alt = << "<NON_REF>" >>
        /\ stream[reader].alt # << "<NON_REF>" >> =>
              /\ last.res.tag = "Ok"
              /\ last.res.rec.alleles =
                     << stream[reader].ref >> \o WithoutNonRef(stream[reader].alt)
        /\ last.res.tag = "Ok" =>
              \A i \in 1..Len(last.res.rec.alleles) :
                  last.res.rec.alleles[i] \notin { "<NON_REF>", "<NON_REF>\n" }


(***************************************************************************)
(* C27: get_span on a record with no allele fails with RuntimeError; when  *)
(* every allele has length 1 it returns (pos, pos); when the longest       *)
(* allele has length L > 1 it returns (pos, pos + L - 1), so alleles       *)
(* A and ATT at position 10 give (10, 12); the record is never modified.   *)
(***************************************************************************)
AlleleLengths == { Len(s_record.alleles[i]) : i \in 1..Len(s_record.alleles) }

Longest == CHOOSE L \in AlleleLengths : \A n \in AlleleLengths : n <= L

SpanAsClaimed ==
    s_called =>
        /\ s_record.alleles = <<>> => s_result = SpanErr("RuntimeError")
        /\ (s_record.alleles # <<>> /\ AlleleLengths = {1}) =>
               s_result = SpanOk(s_record.pos, s_record.pos)
        /\ (s_record.alleles # <<>> /\ Longest > 1) =>
               s_result = SpanOk(s_record.pos, s_record.pos + Longest - 1)

C27_SpanOfRecord == [] SpanAsClaimed /\ [][s_record' = s_record]_vars

C27_Witness ==
    /\ s_called
    /\ s_record.alleles = << "A", "ATT" >>
    /\ s_record.pos = 10
    /\ s_result = SpanOk(10, 12)


(***************************************************************************)
(* C28: a fill_buffer call that meets a failure other than an invariant    *)
(* line returns it as its error, in Header as in Body: a read that fails   *)
(* gives the I/O error, a data line with too few columns gives             *)
(* GVCFLineNotEnoughFields, and a stream that ends inside the header gives *)
(* BrokenHeader.                                                           *)
(***************************************************************************)
ReadInCall(i) == i \in (pre.reader + 1)..reader

\* line i comes after one or more ## lines and a #CHROM line
AfterHeader(s, i) ==
    \E m \in 2..(i - 1) :
        /\ \A j \in 1..(m - 1) : s[j].lead = "##"
        /\ s[m].lead = "#CHROM"

MalformedDataLine(l) == l.lead = "" /\ l.nf < 5

C28_FillBufferReturnsFailures ==
    (last.op = "fill_buffer" /\ Returned) =>
        /\ (\E i \in 1..Len(stream) : ReadInCall(i) /\ stream[i] = IoFailure) =>
               last.res = ErrRes("Io")
        /\ (\E i \in 1..Len(stream) :
                ReadInCall(i) /\ AfterHeader(stream, i) /\ MalformedDataLine(stream[i])) =>
               last.res = ErrRes("GVCFLineNotEnoughFields")
        /\ (/\ pre.reader = 0
            /\ reader = Len(stream)
            /\ stream # <<>>
            /\ OnlyMetaLines(stream)) =>
               last.res = ErrRes("BrokenHeader")


(***************************************************************************)
(* C29: a next() call whose item comes from a data line of fewer than nine *)
(* columns returns NotEnoughColumns, also when that line is the first data *)
(* line of the file.                                                       *)
(***************************************************************************)
ShortDataLineRead ==
    /\ vpre.reader < vreader
    /\ vstream[vreader].lead = ""
    /\ vstream[vreader].fixed + Len(vstream[vreader].samples) < 9

C29_ShortDataLineReported ==
    ShortDataLineRead => vlast = VErr("NotEnoughColumns")

\* C29, as the code has it: a data line of fewer than nine columns gives
\* NotEnoughColumns when the call begins in Body; when the call begins in
\* Header the ploidy inference meets the line first and the call returns
\* FormatColumnNotFound and leaves the iterator in Header.
C29_ShortDataLineBySection ==
    ShortDataLineRead =>
        IF vpre.section = "Body"
        THEN vlast = VErr("NotEnoughColumns") /\ vsection = "Body"
        ELSE vlast = VErr("FormatColumnNotFound") /\ vsection = "Header"

C29_Witness ==
    /\ ShortDataLineRead
    /\ vpre.section = "Header"
    /\ vlast = VErr("FormatColumnNotFound")
    /\ \E i \in 1..(vreader - 1) : vstream[i].lead = "#CHROM"

C29_WitnessBody ==
    /\ ShortDataLineRead
    /\ vpre.section = "Body"
    /\ vlast = VErr("NotEnoughColumns")


(***************************************************************************)
(* C30: within one line, decoded samples being those whose genotype is     *)
(* neither "." nor the reference genotype: if two decoded samples differ   *)
(* in their number of allele tokens the line fails with                    *)
(* InconsistentPloidies; if all decoded samples have the same number of    *)
(* tokens and it is not the session ploidy, the line fails with            *)
(* DifferentObservedPloidy { observed: that number, given: ploidy },       *)
(* whatever reference or missing samples the line also has.  Stated for    *)
(* lines that are otherwise in order: as many sample columns as the        *)
(* session declares, a GT sub-field in each, allele tokens only.           *)
(***************************************************************************)
IsDecodedSample(l, i) ==
    GtText(l, i) # << "." >> /\ GtText(l, i) # d_reference_gt

DecodedSamples(l) == { i \in 1..Len(l.samples) : IsDecodedSample(l, i) }

DecodedCounts(l) == { TokenCount(GtText(l, i)) : i \in DecodedSamples(l) }

C30_MismatchKindReported ==
    ( /\ decoded
      /\ HasGenotypeColumns(d_line)
      /\ Len(d_line.samples) = d_num_samples
      /\ AlleleTokensOnly(d_line) ) =>
        /\ Cardinality(DecodedCounts(d_line)) > 1 =>
               (d_result.tag = "Err" /\ d_result.err = "InconsistentPloidies")
        /\ \A c \in DecodedCounts(d_line) :
               (DecodedCounts(d_line) = {c} /\ c # d_ploidy) =>
                   d_result = VResult("Err", NoVcfRecord, "DifferentObservedPloidy", c, d_ploidy)


(***************************************************************************)
(* C31: every call of next() and of fill_buffer(n) on the gVCF iterator    *)
(* returns, whatever the first line of the stream is, having read no more  *)
(* lines than the stream has.                                              *)
(***************************************************************************)
C31_EveryCallReturns ==
    /\ ~hung
    /\ last.op \in { "next", "fill_buffer" } => (Returned /\ reader <= Len(stream))


(***************************************************************************)
(* C32: the VCF iterator is in Body only if a #CHROM line was read before, *)
(* and then num_samples is the number of sample columns of a #CHROM line   *)
(* read before, never the 0 it has after construction for want of one.     *)
(***************************************************************************)
C32_BodyOnlyAfterChromLine ==
    vsection = "Body" =>
        /\ \E i \in 1..vreader : vstream[i].lead = "#CHROM"
        /\ \E i \in 1..vreader :
               IsFullChromLine(vstream[i]) /\ num_samples = Len(vstream[i].samples)


(***************************************************************************)
(* C33: decoding a sample writes cells of that sample only.  In a line     *)
(* with as many sample columns as the session declares, no write falls     *)
(* outside the matrix, and in an Ok record the cells of a sample whose     *)
(* allele tokens are all "0", which itself writes nothing, are still the   *)
(* zeros the matrix was allocated with.                                    *)
(***************************************************************************)
AllZeroTokens(gt) ==
    \A k \in 1..TokenCount(gt) : TokensOf(gt)[k] = << "0" >>

C33_SamplesWriteOwnCellsOnly ==
    ( /\ decoded
      /\ d_ploidy >= 1
      /\ HasGenotypeColumns(d_line)
      /\ Len(d_line.samples) = d_num_samples ) =>
        /\ d_result.tag # "Panic"
        /\ d_result.tag = "Ok" =>
               \A j \in 1..d_num_samples :
                   AllZeroTokens(GtText(d_line, j)) =>
                       SampleCells(d_result.rec.genotypes, j, d_ploidy) = [k \in 1..d_ploidy |-> 0]


(***************************************************************************)
(* C34: from_line returns an Ok record only for a line that has exactly    *)
(* num_samples sample columns after the nine fixed columns.                *)
(***************************************************************************)
C34_OkOnlyWithDeclaredColumns ==
    (decoded /\ d_result.tag = "Ok") =>
        /\ d_line.fixed = 9
        /\ Len(d_line.samples) = d_num_samples


(***************************************************************************)
(* C35: for a record with at least one allele, get_span returns            *)
(* (start, end) with start = pos and end >= start, and computes it without *)
(* overflow or underflow, also when the longest allele has length 0.       *)
(***************************************************************************)
C35_SpanWithoutOverflow ==
    (s_called /\ s_record.alleles # <<>>) =>
        /\ s_result.tag = "Ok"
        /\ s_result.first = s_record.pos
        /\ s_result.last >= s_result.first

====
